---- MODULE Spec2Model ----
(***************************************************************************)
(* State-machine model of the ZKTeco protocol clients of                   *)
(* gianged-attendance:                                                     *)
(*   - zk_tcp::ZkTcpClient (async client, src/src/zk_tcp/*.rs)             *)
(*   - zk::ZkTcpClient     (blocking client, src/src/zk/*.rs)              *)
(* One action is one socket round trip (or one whole call when the call    *)
(* makes at most one round trip).  The device and the transport are the    *)
(* environment: every write and every read draws its outcome from a small  *)
(* set (\E).                                                               *)
(***************************************************************************)
EXTENDS Integers, Sequences, FiniteSets, TLC

VARIABLES
    stream,       \* zk_tcp::ZkTcpClient.stream is Some(_)
    session_id,   \* zk_tcp::ZkTcpClient.session_id (u16)
    reply_id,     \* zk_tcp::ZkTcpClient.reply_id (u16)
    pc,           \* position of the running zk_tcp call ("idle": no call)
    wire,         \* frames handed to write_packet during the current/last call
    result,       \* value returned by the last finished zk_tcp call
    xfer,         \* locals of read_with_buffer / read_chunk
    raw_data,     \* Ok value of read_with_buffer (byte count)
    xferErr,      \* Err value of read_with_buffer (the `e` of download_attendance)
    connReply,    \* session id of the CONNECT reply that opened the current connection
    zk,           \* zk::ZkTcpClient: [alive, session_id, reply_id]
    zkpc,         \* position of the running zk call
    zkwire,       \* frames written by the zk client during the current/last call
    zkresult,     \* value returned by the last finished zk call
    zkloc,        \* locals of zk get_attendance
    zksends,      \* number of send_command calls made on the zk session
    zklog,        \* whether the frames of the zk client are recorded in zkwire
    sync,         \* the sync-layer operation that owns the zk client
    received,     \* one frame off the socket and what each read_response made of it
    call,         \* one call of a pure function: its name, arguments and return value
    device,       \* the terminal's attendance log, as the device keeps it
    store,        \* rows of the attendance_logs table of the relational store
    service,      \* locals of one SyncService::sync_via_tcp future
    app,          \* ui::App: sync_state and sync_progress_rx
    tasks         \* the background tasks App::start_sync has spawned

vars == <<stream, session_id, reply_id, pc, wire, result, xfer, raw_data,
          xferErr, connReply, zk, zkpc, zkwire, zkresult, zkloc, zksends, zklog, sync,
          received, call, device, store, service, app, tasks>>

tcpvars == <<stream, session_id, reply_id, pc, wire, result, xfer, raw_data,
             xferErr, connReply>>

zkvars == <<zk, zkpc, zkwire, zkresult, zkloc, zksends, zklog, sync, received,
           call>>

appvars == <<device, store, service, app, tasks>>

\* The run has no sync service and no UI.
NoDevice == [log |-> {}, next |-> 1, erased |-> {}]
NoService == [pc |-> "none"]
\* App::new: SyncState::default(), no receiver.
NoApp == [sync_state |-> [tag |-> "Idle"], sync_progress_rx |-> 0]

AppInit ==
    /\ device = NoDevice
    /\ store = {}
    /\ service = NoService
    /\ app = NoApp
    /\ tasks = <<>>

----------------------------------------------------------------------------
(* Protocol constants: src/src/zk_tcp/types.rs, src/src/zk/protocol.rs *)

CMD_CONNECT == 1000
CMD_EXIT == 1001
CMD_DISABLEDEVICE == 1003
CMD_ENABLEDEVICE == 1004
CMD_GET_FREE_SIZES == 50
CMD_ATTLOG_RRQ == 13
CMD_PREPARE_DATA == 1500
CMD_DATA == 1501
CMD_FREE_DATA == 1502
CMD_PREPARE_BUFFER == 1503
CMD_READ_BUFFER == 1504
CMD_ACK_OK == 2000
CMD_ACK_DATA == 1500
CMD_DATA_WRRQ == 1503
CMD_READ_CHUNK == 1504
CHUNK_SIZE == 65472
\* Imported by zk/client.rs from zk::protocol; the spec leaves the value to
\* the device ("CLEAR_ATTLOG (device-specific)").
CMD_CLEAR_ATTLOG == 15
PAYLOAD_MIN_SIZE == 8
MAX_CHUNK == 65472
MAX_PAYLOAD == 1000000
CHUNK_RETRIES == 3
U16 == 65536

(* Bounds of the model *)

\* connect and download_attendance are started only while the session has
\* sent fewer than MaxStartSeq frames (reply_id is otherwise unbounded).
MaxStartSeq == 3

\* The blocking client starts a command of get_attendance only while fewer
\* than MaxZkSends commands were sent on its session.
MaxZkSends == 9

\* The full-width download loop is followed for at most MaxWideTurns chunks.
MaxWideTurns == 3

\* Records in one decoded buffer.
MaxRecords == 2

\* A session of consecutive send_command calls is followed for at most
\* MaxSeqSends calls: past the wrap of the 16-bit counter.
MaxSeqSends == 65540

----------------------------------------------------------------------------
(* Values *)

NoReply == -1

NoErr == [kind |-> "none", msg |-> "none"]

AppErr(k, m) == [kind |-> k, msg |-> m]

\* A reply body is characterised by what the code reads of it: its length,
\* the little-endian u32 at offset 0 and the little-endian u32 at offset 1.
Body(l, a, b) == [len |-> l, u32at0 |-> a, u32at1 |-> b]

EmptyBody == Body(0, 0, 0)

\* A reply body of l bytes that begins with the 20 counters `words`, each as
\* 4 bytes, least significant first; bytes[i] is the byte at offset i.
CapBody(l, words) ==
    [len |-> l, u32at0 |-> words[1], u32at1 |-> 0,
     bytes |-> [i \in 0..79 |-> (words[(i \div 4) + 1] \div (256 ^ (i % 4))) % 256]]

\* u32::from_le_bytes of the 4 bytes at `offset`.
from_le_bytes(bytes, offset) ==
    bytes[offset] + bytes[offset + 1] * 256
      + bytes[offset + 2] * 65536 + bytes[offset + 3] * 16777216

\* The 20 counters of a capacity reply that reports r attendance records;
\* the other counters are pairwise different.
CapWords(r) == [i \in 1..20 |-> IF i = 9 THEN r ELSE 1000 + i]

\* Record counts a device reports, around the auto-clear threshold.
RecordCounts == {99, 100, 101}

NoResp == [code |-> 0, data |-> EmptyBody, tcp_length |-> 0]

Ok(v) == [ok |-> TRUE, err |-> NoErr, val |-> v]

Err(e) == [ok |-> FALSE, err |-> e, val |-> NoResp]

----------------------------------------------------------------------------
(* Environment: outcomes of one socket write / one frame read / one raw read *)

WriteOutcomes == {"ok", "timeout", "failed"}

RawOutcomes == {"full", "closed", "timeout", "failed"}

\* What the device may put into the session-id field of a reply.
DevSessions == {0, 4660}

\* Reply codes the device may answer with.
ReplyCodes == {CMD_ACK_OK, CMD_DATA, CMD_PREPARE_DATA}

\* Total sizes a device may announce in a prepare reply.
TotalSizes == {0, 100, MAX_CHUNK, MAX_CHUNK + 100}

\* 5-byte body b0=0, bytes 1..4 = s (LE): the size field of a prepare reply.
PrepareBody(s) == Body(5, (s % 16777216) * 256, s)

\* l-byte body whose first 4 bytes are n (LE), the remaining bytes zero.
SizeBody(n, l) == Body(l, n, n \div 256)

\* Bodies of a reply to PREPARE_BUFFER: empty, too short for a size field,
\* 100 bytes of data, or a size announcement.
PrepareBodies ==
    {EmptyBody, Body(3, 0, 0), Body(100, 0, 0)} \cup {PrepareBody(s) : s \in TotalSizes}

\* Bodies of a reply to READ_BUFFER asking for req bytes: the req bytes, no
\* bytes (a short chunk), or a 4-byte size header announcing req raw bytes.
ChunkBodies(req) == {Body(req, 0, 0), EmptyBody, SizeBody(req, 4)}

\* One incoming frame as read_response meets it.
Rx(h, m, l, p, c, s, d) ==
    [hdr |-> h, magic_ok |-> m, tcp_length |-> l, pay |-> p,
     code |-> c, sid |-> s, data |-> d, checksum_ok |-> TRUE]

Frame(c, s, d) == Rx("ok", TRUE, PAYLOAD_MIN_SIZE + d.len, "ok", c, s, d)

RxFailures ==
    {Rx("timeout", TRUE, 0, "ok", 0, 0, EmptyBody),
     Rx("failed", TRUE, 0, "ok", 0, 0, EmptyBody),
     Rx("ok", FALSE, 8, "ok", 0, 0, EmptyBody),
     Rx("ok", TRUE, MAX_PAYLOAD + 1, "ok", 0, 0, EmptyBody),
     Rx("ok", TRUE, 8, "timeout", 0, 0, EmptyBody),
     Rx("ok", TRUE, 8, "failed", 0, 0, EmptyBody),
     Rx("ok", TRUE, 4, "ok", 0, 0, EmptyBody)}

\* Replies to a command whose reply body the client never reads
\* (DISABLE_DEVICE, ENABLE_DEVICE, FREE_DATA, the ACK after raw chunk data).
RxPlain == RxFailures \cup {Frame(c, 0, EmptyBody) : c \in ReplyCodes}

\* Replies to CMD_CONNECT: the device chooses the session id.
RxConnect == RxFailures \cup {Frame(c, s, EmptyBody) : c \in ReplyCodes, s \in DevSessions}

\* Replies to PREPARE_BUFFER and to READ_BUFFER: any code with any body.
RxPrepare == RxFailures \cup {Frame(c, 0, d) : c \in ReplyCodes, d \in PrepareBodies}

RxChunk(req) == RxFailures \cup {Frame(c, 0, d) : c \in ReplyCodes, d \in ChunkBodies(req)}

\* An input the code does not consume is fixed to one value.
RxUnused == Frame(CMD_ACK_OK, 0, EmptyBody)

RxAfter(w, set) == IF w = "ok" THEN set ELSE {RxUnused}

\* read_raw_data / the ACK read can only be reached behind a well-formed
\* DATA or PREPARE_DATA frame.
RawAfter(w, rx) ==
    IF w = "ok" /\ rx \notin RxFailures /\ rx.code \in {CMD_DATA, CMD_PREPARE_DATA}
    THEN RawOutcomes ELSE {"full"}

AckAfter(w, rx) ==
    IF w = "ok" /\ rx \notin RxFailures /\ rx.code = CMD_PREPARE_DATA
    THEN RxPlain ELSE {RxUnused}

----------------------------------------------------------------------------
(* zk_tcp::io *)

\* write_packet: Ok(()) or the error of the write.
write_packet(w) ==
    IF w = "timeout" THEN Err(AppErr("DeviceTimeout", "Write timeout"))
    ELSE IF w = "failed" THEN Err(AppErr("TcpConnectionFailed", "Write failed"))
    ELSE Ok(NoResp)

\* Variant for comparison: a frame whose checksum field is wrong is refused.
read_response_verifying(rx) ==
    IF rx.hdr = "timeout" THEN Err(AppErr("DeviceTimeout", "Read timeout"))
    ELSE IF rx.hdr = "failed" THEN Err(AppErr("TcpConnectionFailed", "Read failed"))
    ELSE IF ~rx.magic_ok THEN Err(AppErr("TcpProtocolError", "Invalid TCP header"))
    ELSE IF rx.tcp_length > MAX_PAYLOAD
         THEN Err(AppErr("TcpProtocolError", "Payload too large"))
    ELSE IF rx.pay = "timeout" THEN Err(AppErr("DeviceTimeout", "Payload read timeout"))
    ELSE IF rx.pay = "failed"
         THEN Err(AppErr("TcpConnectionFailed", "Payload read failed"))
    ELSE IF rx.tcp_length < PAYLOAD_MIN_SIZE
         THEN Err(AppErr("TcpProtocolError", "Payload too small"))
    ELSE IF ~rx.checksum_ok THEN Err(AppErr("TcpProtocolError", "Bad checksum"))
    ELSE Ok([code |-> rx.code,
             data |-> IF rx.tcp_length > PAYLOAD_MIN_SIZE THEN rx.data ELSE EmptyBody,
             tcp_length |-> rx.tcp_length])

\* Variant for comparison: the magic bytes are not looked at.
read_response_any_magic(rx) ==
    IF rx.hdr = "timeout" THEN Err(AppErr("DeviceTimeout", "Read timeout"))
    ELSE IF rx.hdr = "failed" THEN Err(AppErr("TcpConnectionFailed", "Read failed"))
    ELSE IF rx.tcp_length > MAX_PAYLOAD
         THEN Err(AppErr("TcpProtocolError", "Payload too large"))
    ELSE IF rx.pay = "timeout" THEN Err(AppErr("DeviceTimeout", "Payload read timeout"))
    ELSE IF rx.pay = "failed"
         THEN Err(AppErr("TcpConnectionFailed", "Payload read failed"))
    ELSE IF rx.tcp_length < PAYLOAD_MIN_SIZE
         THEN Err(AppErr("TcpProtocolError", "Payload too small"))
    ELSE Ok([code |-> rx.code,
             data |-> IF rx.tcp_length > PAYLOAD_MIN_SIZE THEN rx.data ELSE EmptyBody,
             tcp_length |-> rx.tcp_length])

\* read_response: header read, magic check, size limit, payload read,
\* minimum size, then code and data; the session id, reply id and checksum
\* of the reply are not kept.
read_response(rx) ==
    IF rx.hdr = "timeout" THEN Err(AppErr("DeviceTimeout", "Read timeout"))
    ELSE IF rx.hdr = "failed" THEN Err(AppErr("TcpConnectionFailed", "Read failed"))
    ELSE IF ~rx.magic_ok THEN Err(AppErr("TcpProtocolError", "Invalid TCP header"))
    ELSE IF rx.tcp_length > MAX_PAYLOAD
         THEN Err(AppErr("TcpProtocolError", "Payload too large"))
    ELSE IF rx.pay = "timeout" THEN Err(AppErr("DeviceTimeout", "Payload read timeout"))
    ELSE IF rx.pay = "failed"
         THEN Err(AppErr("TcpConnectionFailed", "Payload read failed"))
    ELSE IF rx.tcp_length < PAYLOAD_MIN_SIZE
         THEN Err(AppErr("TcpProtocolError", "Payload too small"))
    ELSE Ok([code |-> rx.code,
             data |-> IF rx.tcp_length > PAYLOAD_MIN_SIZE THEN rx.data ELSE EmptyBody,
             tcp_length |-> rx.tcp_length])

\* read_raw_data(size): the bytes received (a closed connection ends the loop
\* early and the buffer is truncated), or the error of the read.
read_raw_data(size, raw) ==
    IF raw = "failed" THEN [ok |-> FALSE, err |-> AppErr("TcpConnectionFailed", "Raw read failed"), len |-> 0]
    ELSE IF raw = "timeout" THEN [ok |-> FALSE, err |-> AppErr("DeviceTimeout", "Raw data timeout"), len |-> 0]
    ELSE IF raw = "closed" THEN [ok |-> TRUE, err |-> NoErr, len |-> 0]
    ELSE [ok |-> TRUE, err |-> NoErr, len |-> size]

----------------------------------------------------------------------------
(* zk_tcp::protocol *)

\* build_packet: the frame carries the current reply_id, which is then
\* incremented (wrapping).  `sent` is filled in by the writer.
build_packet(command, data, sid, rid) ==
    [frame |-> [cmd |-> command, sid |-> sid, seq |-> rid, body |-> data,
                sent |-> FALSE, reply |-> NoReply, err |-> NoErr],
     reply_id |-> (rid + 1) % U16]

\* get_data_size_from_response
get_data_size_from_response(response) ==
    IF response.data.len >= 4
    THEN [ok |-> TRUE, err |-> NoErr, size |-> response.data.u32at0]
    ELSE [ok |-> FALSE, err |-> AppErr("TcpProtocolError", "Cannot extract size from response"), size |-> 0]

----------------------------------------------------------------------------
(* zk_tcp::client -- ZkTcpClient *)

NotConnected == AppErr("TcpConnectionFailed", "Not connected")

\* One entry of `wire`: a request frame handed to write_packet and whether
\* the write succeeded.  For the round trips of read_with_buffer and
\* read_chunk, whose replies the transfer inspects, Trip also records the code
\* of the reply read (NoReply when none was obtained) and the error that ended
\* the round trip, if any.
Sent(frame, wr) ==
    [frame EXCEPT !.sent = wr.ok]

Trip(frame, wr, rd) ==
    [frame EXCEPT !.sent = wr.ok,
                  !.reply = IF wr.ok /\ rd.ok THEN rd.val.code ELSE NoReply,
                  !.err = IF ~wr.ok THEN wr.err ELSE rd.err]

\* send_command_full: build the packet (reply_id advances even when there is
\* no stream), write it, read one reply.
send_command_full(has_stream, sid, rid, command, data, w, rx) ==
    LET bp == build_packet(command, data, sid, rid)
        wr == write_packet(w)
        rd == read_response(rx)
    IN  [res |-> IF ~has_stream THEN Err(NotConnected)
                 ELSE IF ~wr.ok THEN wr
                 ELSE rd,
         reply_id |-> bp.reply_id,
         trips |-> IF has_stream THEN <<Sent(bp.frame, wr)>> ELSE <<>>]

\* send_command: send_command_full, then the reply is rebuilt as a byte
\* vector code ++ [0,0] ++ self.session_id ++ (self.reply_id - 1) ++ data.
send_command(has_stream, sid, rid, command, data, w, rx) ==
    LET full == send_command_full(has_stream, sid, rid, command, data, w, rx)
    IN  [res |-> IF full.res.ok
                 THEN [ok |-> TRUE, err |-> NoErr,
                       val |-> [code |-> full.res.val.code,
                                sid |-> sid,
                                rid |-> (full.reply_id + U16 - 1) % U16,
                                data |-> full.res.val.data,
                                len |-> PAYLOAD_MIN_SIZE + full.res.val.data.len]]
                 ELSE [ok |-> FALSE, err |-> full.res.err,
                       val |-> [code |-> 0, sid |-> 0, rid |-> 0, data |-> EmptyBody, len |-> 0]],
         reply_id |-> full.reply_id,
         trips |-> full.trips]

NoResult == [op |-> "none", ok |-> FALSE, err |-> NoErr, parsed |-> 0]

Returned(o, k, e, n) == [op |-> o, ok |-> k, err |-> e, parsed |-> n]

NoConnReply == [got |-> FALSE, sid |-> 0]

XferNone == [size |-> 0, packets |-> 0, remain |-> 0, i |-> 0, start |-> 0,
             all_data |-> 0, retry |-> 0]

TcpOutcomes == {"ok", "timeout", "refused"}

\* connect(): TCP connect, keep the stream, send CMD_CONNECT, take the session
\* id from bytes 4..5 of the vector send_command returned.
connect(tcp, w, rx) ==
    /\ pc = "idle"
    /\ IF tcp # "ok"
       THEN /\ result' = Returned("connect", FALSE,
                            AppErr("TcpConnectionFailed",
                                   IF tcp = "timeout" THEN "Connection timeout"
                                   ELSE "Failed to connect"), 0)
            /\ wire' = <<>>
            /\ connReply' = NoConnReply
            /\ UNCHANGED <<stream, session_id, reply_id>>
       ELSE LET sc == send_command(TRUE, session_id, reply_id, CMD_CONNECT, <<>>, w, rx)
            IN  /\ stream' = TRUE
                /\ reply_id' = sc.reply_id
                /\ wire' = sc.trips
                /\ connReply' = IF sc.res.ok THEN [got |-> TRUE, sid |-> rx.sid]
                                ELSE NoConnReply
                /\ IF ~sc.res.ok
                   THEN /\ result' = Returned("connect", FALSE, sc.res.err, 0)
                        /\ UNCHANGED session_id
                   ELSE IF sc.res.val.len >= 6
                   THEN /\ session_id' = sc.res.val.sid
                        /\ result' = Returned("connect", TRUE, NoErr, 0)
                   ELSE /\ result' = Returned("connect", FALSE,
                                        AppErr("TcpProtocolError",
                                               "Invalid connect response: too short"), 0)
                        /\ UNCHANGED session_id
    /\ xfer' = XferNone
    /\ raw_data' = 0
    /\ xferErr' = NoErr
    /\ UNCHANGED pc
    /\ UNCHANGED <<zkvars, appvars>>

\* is_connected(): self.stream.is_some().
is_connected == stream

\* Variant for comparison: a failed write of CMD_EXIT is propagated and the
\* stream and counters are kept.
disconnect_propagating(w) ==
    /\ pc = "idle"
    /\ wire' = IF stream
               THEN <<Sent(build_packet(CMD_EXIT, <<>>, session_id, reply_id).frame,
                           write_packet(w))>>
               ELSE <<>>
    /\ IF stream /\ ~write_packet(w).ok
       THEN /\ result' = Returned("disconnect", FALSE, write_packet(w).err, 0)
            /\ reply_id' = build_packet(CMD_EXIT, <<>>, session_id, reply_id).reply_id
            /\ UNCHANGED <<stream, session_id>>
       ELSE /\ stream' = FALSE
            /\ session_id' = 0
            /\ reply_id' = 0
            /\ result' = Returned("disconnect", TRUE, NoErr, 0)
    /\ xfer' = XferNone
    /\ raw_data' = 0
    /\ xferErr' = NoErr
    /\ connReply' = NoConnReply
    /\ UNCHANGED pc
    /\ UNCHANGED <<zkvars, appvars>>

\* disconnect(): with a stream, build and write CMD_EXIT (errors ignored, no
\* reply read); always drop the stream and zero session_id and reply_id.
disconnect(w) ==
    /\ pc = "idle"
    /\ wire' = IF stream
               THEN <<Sent(build_packet(CMD_EXIT, <<>>, session_id, reply_id).frame,
                           write_packet(w))>>
               ELSE <<>>
    /\ stream' = FALSE
    /\ session_id' = 0
    /\ reply_id' = 0
    /\ result' = Returned("disconnect", TRUE, NoErr, 0)
    /\ xfer' = XferNone
    /\ raw_data' = 0
    /\ xferErr' = NoErr
    /\ connReply' = NoConnReply
    /\ UNCHANGED pc
    /\ UNCHANGED <<zkvars, appvars>>

\* Replies to the GET_FREE_SIZES of get_attendance_count: no body, 4 bytes,
\* or 80 bytes of counters.
RxCount ==
    RxFailures \cup {Frame(CMD_ACK_OK, 0, d) :
                        d \in {EmptyBody, Body(4, 7, 0), CapBody(80, CapWords(100))}}

\* get_attendance_count(): the connected check, one GET_FREE_SIZES; the count
\* is the u32 at offset 40 of the rebuilt vector (offset 32 of the body), or
\* at offset 8 (offset 0 of the body) when the vector is shorter than 44.
get_attendance_count(w, rx) ==
    /\ pc = "idle"
    /\ IF ~is_connected
       THEN /\ result' = Returned("get_attendance_count", FALSE, NotConnected, 0)
            /\ wire' = <<>>
            /\ UNCHANGED reply_id
       ELSE LET sc == send_command(stream, session_id, reply_id,
                                   CMD_GET_FREE_SIZES, <<>>, w, rx)
                response == sc.res.val
            IN  /\ reply_id' = sc.reply_id
                /\ wire' = sc.trips
                /\ result' =
                      IF ~sc.res.ok
                      THEN Returned("get_attendance_count", FALSE, sc.res.err, 0)
                      ELSE IF response.len >= 44
                      THEN Returned("get_attendance_count", TRUE, NoErr,
                                    from_le_bytes(response.data.bytes, 32))
                      ELSE IF response.len >= 12
                      THEN Returned("get_attendance_count", TRUE, NoErr,
                                    response.data.u32at0)
                      ELSE Returned("get_attendance_count", FALSE,
                                    AppErr("TcpProtocolError",
                                           "Free sizes response too small"), 0)
    /\ xfer' = XferNone
    /\ raw_data' = 0
    /\ xferErr' = NoErr
    /\ UNCHANGED <<pc, stream, session_id, connReply>>
    /\ UNCHANGED <<zkvars, appvars>>

----------------------------------------------------------------------------
(* zk_tcp::parser, as far as download_attendance depends on it *)

\* parse_attendance_data returns Ok for every buffer (records that do not
\* decode are skipped); `parsed` names the buffer the records were decoded from.
parse_attendance_data(raw) == Returned("download_attendance", TRUE, NoErr, raw)

----------------------------------------------------------------------------
(* zk_tcp::transfer -- read_with_buffer, read_chunk, receive_chunk *)

SaturatingSub(a, b) == IF a >= b THEN a - b ELSE 0

\* receive_tcp_data: bytes after the first 8 of the reply, the rest read raw
\* from the socket, then one more frame (the ACK), whose code is not checked.
receive_tcp_data(response, size, raw, rx2) ==
    LET inline == IF response.data.len > 8 THEN response.data.len - 8 ELSE 0
        more == read_raw_data(size - inline, raw)
        ack == read_response(rx2)
    IN  IF inline < size /\ ~more.ok THEN [ok |-> FALSE, err |-> more.err, some |-> FALSE, len |-> 0]
        ELSE IF ~ack.ok THEN [ok |-> FALSE, err |-> ack.err, some |-> FALSE, len |-> 0]
        ELSE [ok |-> TRUE, err |-> NoErr, some |-> TRUE,
              len |-> IF inline < size THEN inline + more.len ELSE inline]

\* receive_chunk: Ok(Some(data)) for a DATA or PREPARE_DATA reply, Ok(None)
\* for any other code, Err when reading the data fails.
receive_chunk(response, raw, rx2) ==
    IF response.code = CMD_DATA
    THEN LET expected == SaturatingSub(response.tcp_length, PAYLOAD_MIN_SIZE)
             have == response.data.len
             more == read_raw_data(expected - have, raw)
         IN  IF have < expected
             THEN IF more.ok
                  THEN [ok |-> TRUE, err |-> NoErr, some |-> TRUE, len |-> have + more.len]
                  ELSE [ok |-> FALSE, err |-> more.err, some |-> FALSE, len |-> 0]
             ELSE [ok |-> TRUE, err |-> NoErr, some |-> TRUE, len |-> have]
    ELSE IF response.code = CMD_PREPARE_DATA
    THEN LET gs == get_data_size_from_response(response)
         IN  IF gs.ok THEN receive_tcp_data(response, gs.size, raw, rx2)
             ELSE [ok |-> FALSE, err |-> gs.err, some |-> FALSE, len |-> 0]
    ELSE [ok |-> TRUE, err |-> NoErr, some |-> FALSE, len |-> 0]

\* read_with_buffer returned Err(e): download_attendance goes to its cleanup.
rwb_err(e) ==
    /\ xferErr' = e
    /\ pc' = "cleanup_free_data"
    /\ UNCHANGED raw_data

\* read_with_buffer returned Ok(data): download_attendance goes on to unlock.
rwb_ok(n) ==
    /\ raw_data' = n
    /\ pc' = "enable"
    /\ UNCHANGED xferErr

\* read_with_buffer up to the chunk loop: PREPARE_BUFFER round trip, data
\* returned directly in a DATA reply, or the announced size and its chunking.
read_with_buffer(w, rx, raw) ==
    /\ pc = "read_with_buffer"
    /\ LET bp == build_packet(CMD_PREPARE_BUFFER, <<1, CMD_ATTLOG_RRQ, 0, 0>>,
                              session_id, reply_id)
           wr == write_packet(w)
           rd == read_response(rx)
           response == rd.val
           expected == SaturatingSub(response.tcp_length, PAYLOAD_MIN_SIZE)
           have == response.data.len
           more == read_raw_data(expected - have, raw)
           size == response.data.u32at1
           remain == size % MAX_CHUNK
           packets == (size - remain) \div MAX_CHUNK
       IN  /\ reply_id' = bp.reply_id
           /\ wire' = Append(wire, Trip(bp.frame, wr, rd))
           /\ IF ~wr.ok THEN rwb_err(wr.err) /\ UNCHANGED xfer
              ELSE IF ~rd.ok THEN rwb_err(rd.err) /\ UNCHANGED xfer
              ELSE IF response.code = CMD_DATA
              THEN IF have < expected
                   THEN IF more.ok THEN rwb_ok(have + more.len) /\ UNCHANGED xfer
                        ELSE rwb_err(more.err) /\ UNCHANGED xfer
                   ELSE rwb_ok(have) /\ UNCHANGED xfer
              ELSE IF response.data.len < 5
              THEN rwb_err(AppErr("TcpProtocolError",
                                  "PREPARE_BUFFER response data too small"))
                   /\ UNCHANGED xfer
              ELSE IF size = 0 THEN rwb_ok(0) /\ UNCHANGED xfer
              ELSE /\ xfer' = [size |-> size, packets |-> packets, remain |-> remain,
                               i |-> 0, start |-> 0, all_data |-> 0, retry |-> 0]
                   /\ pc' = "read_chunk"
                   /\ UNCHANGED <<raw_data, xferErr>>
    /\ UNCHANGED <<stream, session_id, result, connReply>>
    /\ UNCHANGED <<zkvars, appvars>>

\* Variant for comparison: a trailing request also when the size divides evenly.
NumChunks_trailing(x) == x.packets + 1

\* Number of chunks read_with_buffer asks for: the full ones, then the remainder.
NumChunks(x) == x.packets + (IF x.remain > 0 THEN 1 ELSE 0)

\* Size read_with_buffer passes to read_chunk for chunk number x.i.
ChunkSize(x) == IF x.i < x.packets THEN MAX_CHUNK ELSE x.remain

ChunkErr == AppErr("TcpProtocolError", "Failed to read chunk after 3 retries")

\* Variant for comparison: a fourth pass of the retry loop.
read_chunk_pass_4(retry, wr, rd, rc) ==
    IF ~wr.ok THEN [t |-> "err", err |-> wr.err]
    ELSE IF ~rd.ok THEN [t |-> "err", err |-> rd.err]
    ELSE IF ~rc.ok THEN [t |-> "err", err |-> rc.err]
    ELSE IF rc.some THEN [t |-> "data", err |-> NoErr]
    ELSE IF retry + 1 >= CHUNK_RETRIES + 1 THEN [t |-> "err", err |-> ChunkErr]
    ELSE [t |-> "retry", err |-> NoErr]

\* Variant for comparison: a failed read of the reply is retried like an unexpected code.
read_chunk_pass_reread(retry, wr, rd, rc) ==
    IF ~wr.ok THEN [t |-> "err", err |-> wr.err]
    ELSE IF rd.ok /\ ~rc.ok THEN [t |-> "err", err |-> rc.err]
    ELSE IF rd.ok /\ rc.some THEN [t |-> "data", err |-> NoErr]
    ELSE IF retry + 1 >= CHUNK_RETRIES THEN [t |-> "err", err |-> ChunkErr]
    ELSE [t |-> "retry", err |-> NoErr]

\* One pass of read_chunk's loop `for retry in 0..3`, given the results of
\* write_packet, read_response and receive_chunk: `?` on each of them, return
\* on Some(data), fall through to the next pass on None, and after the last
\* pass the protocol error.
read_chunk_pass(retry, wr, rd, rc) ==
    IF ~wr.ok THEN [t |-> "err", err |-> wr.err]
    ELSE IF ~rd.ok THEN [t |-> "err", err |-> rd.err]
    ELSE IF ~rc.ok THEN [t |-> "err", err |-> rc.err]
    ELSE IF rc.some THEN [t |-> "data", err |-> NoErr]
    ELSE IF retry + 1 >= CHUNK_RETRIES THEN [t |-> "err", err |-> ChunkErr]
    ELSE [t |-> "retry", err |-> NoErr]

\* read_chunk, one pass per step, inside read_with_buffer's chunk loop: the
\* READ_BUFFER round trip for the current chunk and receive_chunk.  Data is
\* appended and the loop moves to the next chunk (to FREE_DATA after the
\* last); an error leaves read_with_buffer at once.
read_chunk(w, rx, raw, rx2) ==
    /\ pc = "read_chunk"
    /\ LET bp == build_packet(CMD_READ_BUFFER, <<xfer.start, ChunkSize(xfer)>>,
                              session_id, reply_id)
           wr == write_packet(w)
           rd == read_response(rx)
           rc == receive_chunk(rd.val, raw, rx2)
           out == read_chunk_pass(xfer.retry, wr, rd, rc)
           att == IF wr.ok /\ rd.ok /\ ~rc.ok
                  THEN [Trip(bp.frame, wr, rd) EXCEPT !.err = rc.err]
                  ELSE Trip(bp.frame, wr, rd)
           next == [xfer EXCEPT !.all_data = @ + rc.len,
                                !.start = IF xfer.i < xfer.packets THEN @ + MAX_CHUNK ELSE @,
                                !.i = @ + 1,
                                !.retry = 0]
       IN  /\ reply_id' = bp.reply_id
           /\ wire' = Append(wire, att)
           /\ IF out.t = "err" THEN rwb_err(out.err) /\ UNCHANGED xfer
              ELSE IF out.t = "data"
              THEN /\ xfer' = next
                   /\ pc' = IF next.i >= NumChunks(xfer) THEN "free_data" ELSE "read_chunk"
                   /\ UNCHANGED <<raw_data, xferErr>>
              ELSE /\ xfer' = [xfer EXCEPT !.retry = @ + 1]
                   /\ UNCHANGED <<pc, raw_data, xferErr>>
    /\ UNCHANGED <<stream, session_id, result, connReply>>
    /\ UNCHANGED <<zkvars, appvars>>

\* End of read_with_buffer after the last chunk: FREE_DATA is written and one
\* reply read, both results dropped; Ok(all_data).
rwb_free_data(w, rx) ==
    /\ pc = "free_data"
    /\ LET bp == build_packet(CMD_FREE_DATA, <<>>, session_id, reply_id)
       IN  /\ reply_id' = bp.reply_id
           /\ wire' = Append(wire, Sent(bp.frame, write_packet(w)))
    /\ rwb_ok(xfer.all_data)
    /\ UNCHANGED <<stream, session_id, result, connReply, xfer>>
    /\ UNCHANGED <<zkvars, appvars>>

----------------------------------------------------------------------------
(* zk_tcp::client -- download_attendance *)

\* Variant for comparison: no connected check, the command is sent first.
download_attendance_unchecked(w, rx) ==
    /\ pc = "idle"
    /\ LET sc == send_command(stream, session_id, reply_id,
                              CMD_DISABLEDEVICE, <<>>, w, rx)
       IN  /\ reply_id' = sc.reply_id
           /\ wire' = sc.trips
           /\ IF sc.res.ok
              THEN /\ pc' = "read_with_buffer"
                   /\ result' = NoResult
              ELSE /\ pc' = "idle"
                   /\ result' = Returned("download_attendance", FALSE, sc.res.err, 0)
    /\ xfer' = XferNone
    /\ raw_data' = 0
    /\ xferErr' = NoErr
    /\ UNCHANGED <<stream, session_id, connReply>>
    /\ UNCHANGED <<zkvars, appvars>>

\* download_attendance up to the call of read_with_buffer: the connected
\* check, then send_command(CMD_DISABLEDEVICE) with `?`.  The entry of the
\* wire keeps the error of the round trip (NoErr: the reply was received).
download_attendance(w, rx) ==
    /\ pc = "idle"
    /\ IF ~stream
       THEN /\ result' = Returned("download_attendance", FALSE, NotConnected, 0)
            /\ wire' = <<>>
            /\ UNCHANGED <<pc, reply_id>>
       ELSE LET sc == send_command(stream, session_id, reply_id,
                                   CMD_DISABLEDEVICE, <<>>, w, rx)
            IN  /\ reply_id' = sc.reply_id
                /\ wire' = <<[sc.trips[1] EXCEPT !.err = sc.res.err]>>
                /\ IF sc.res.ok
                   THEN /\ pc' = "read_with_buffer"
                        /\ result' = NoResult
                   ELSE /\ pc' = "idle"
                        /\ result' = Returned("download_attendance", FALSE, sc.res.err, 0)
    /\ xfer' = XferNone
    /\ raw_data' = 0
    /\ xferErr' = NoErr
    /\ UNCHANGED <<stream, session_id, connReply>>
    /\ UNCHANGED <<zkvars, appvars>>

\* Ok arm: send_command(CMD_ENABLEDEVICE), result dropped, then the parse of
\* the downloaded buffer is the return value.
dl_enable(w, rx) ==
    /\ pc = "enable"
    /\ LET sc == send_command(stream, session_id, reply_id, CMD_ENABLEDEVICE, <<>>, w, rx)
       IN  /\ reply_id' = sc.reply_id
           /\ wire' = wire \o sc.trips
    /\ result' = parse_attendance_data(raw_data)
    /\ pc' = "idle"
    /\ UNCHANGED <<stream, session_id, connReply, xfer, raw_data, xferErr>>
    /\ UNCHANGED <<zkvars, appvars>>

\* Err arm, first cleanup command: send_command(CMD_FREE_DATA), result dropped.
dl_cleanup_free_data(w, rx) ==
    /\ pc = "cleanup_free_data"
    /\ LET sc == send_command(stream, session_id, reply_id, CMD_FREE_DATA, <<>>, w, rx)
       IN  /\ reply_id' = sc.reply_id
           /\ wire' = wire \o sc.trips
    /\ pc' = "cleanup_enable"
    /\ UNCHANGED <<stream, session_id, connReply, xfer, raw_data, xferErr, result>>
    /\ UNCHANGED <<zkvars, appvars>>

\* Variant for comparison: the Err arm returns without the unlock.
dl_cleanup_enable_skipped(w, rx) ==
    /\ pc = "cleanup_enable"
    /\ result' = Returned("download_attendance", FALSE, xferErr, 0)
    /\ pc' = "idle"
    /\ UNCHANGED <<stream, session_id, reply_id, wire, connReply, xfer, raw_data, xferErr>>
    /\ UNCHANGED <<zkvars, appvars>>

\* Variant for comparison: a failed unlock replaces the error of the transfer.
dl_cleanup_enable_masking(w, rx) ==
    /\ pc = "cleanup_enable"
    /\ LET sc == send_command(stream, session_id, reply_id, CMD_ENABLEDEVICE, <<>>, w, rx)
       IN  /\ reply_id' = sc.reply_id
           /\ wire' = wire \o sc.trips
           /\ result' = Returned("download_attendance", FALSE,
                                 IF sc.res.ok THEN xferErr ELSE sc.res.err, 0)
    /\ pc' = "idle"
    /\ UNCHANGED <<stream, session_id, connReply, xfer, raw_data, xferErr>>
    /\ UNCHANGED <<zkvars, appvars>>

\* Err arm, second cleanup command: send_command(CMD_ENABLEDEVICE), result
\* dropped, then return Err(e) with the error of read_with_buffer.
dl_cleanup_enable(w, rx) ==
    /\ pc = "cleanup_enable"
    /\ LET sc == send_command(stream, session_id, reply_id, CMD_ENABLEDEVICE, <<>>, w, rx)
       IN  /\ reply_id' = sc.reply_id
           /\ wire' = wire \o sc.trips
    /\ result' = Returned("download_attendance", FALSE, xferErr, 0)
    /\ pc' = "idle"
    /\ UNCHANGED <<stream, session_id, connReply, xfer, raw_data, xferErr>>
    /\ UNCHANGED <<zkvars, appvars>>

----------------------------------------------------------------------------
(* zk::protocol and zk::client -- the blocking client zk::ZkTcpClient *)

ZkErr(k, m) == [kind |-> k, msg |-> m]

\* Replies the blocking client may meet: any failure of a read, or a frame
\* with one of the codes it tells apart (8888: any other code).
ZkCodes == {CMD_ACK_OK, CMD_DATA, CMD_ACK_DATA, 8888}

ZkTotalSizes == {0, 100, CHUNK_SIZE + 100}

ZkRxPlain == RxFailures \cup {Frame(c, s, EmptyBody) : c \in ZkCodes, s \in DevSessions}

ZkRxWrrq ==
    RxFailures \cup {Frame(c, 0, d) : c \in ZkCodes,
                                     d \in {EmptyBody} \cup {PrepareBody(t) : t \in ZkTotalSizes}}

ZkRxChunk(req) == RxFailures \cup {Frame(c, 0, d) : c \in ZkCodes, d \in {Body(req, 0, 0), EmptyBody}}

\* No reply recorded for a request frame.
ZkNoReply == [got |-> FALSE, cmd |-> 0, data |-> EmptyBody]

\* zk::protocol::build_packet: the frame for (cmd, session_id, reply_id, data).
\* `sent`, `read` and `reply` are filled in by send_command: whether the frame
\* was written, whether a read of the reply was then attempted, and (for
\* get_capacity and clear_attendance) the reply that was read.
zk_build_packet(cmd, sid, rid, data) ==
    [cmd |-> cmd, sid |-> sid, seq |-> rid, body |-> data,
     sent |-> FALSE, read |-> FALSE, reply |-> ZkNoReply]

ZkNoResp == [cmd |-> 0, session_id |-> 0, data |-> EmptyBody]

\* ZkTcpClient::read_response: read_exact of the header, magic check,
\* read_exact of the announced payload (no size limit), at least 8 bytes.
zk_read_response(rx) ==
    IF rx.hdr # "ok" THEN [ok |-> FALSE, err |-> ZkErr("Io", rx.hdr), val |-> ZkNoResp]
    ELSE IF ~rx.magic_ok
         THEN [ok |-> FALSE, err |-> ZkErr("InvalidResponse", "Bad header"), val |-> ZkNoResp]
    ELSE IF rx.pay # "ok" THEN [ok |-> FALSE, err |-> ZkErr("Io", rx.pay), val |-> ZkNoResp]
    ELSE IF rx.tcp_length >= 8
         THEN [ok |-> TRUE, err |-> NoErr,
               val |-> [cmd |-> rx.code, session_id |-> rx.sid, data |-> rx.data]]
    ELSE [ok |-> FALSE, err |-> ZkErr("InvalidResponse", "Payload too small"),
          val |-> ZkNoResp]

\* No pure function is being applied.
NoCall == [fn |-> "none", done |-> FALSE]

\* No frame taken off the socket yet.
NotReceived ==
    [rx |-> RxUnused, tcp_read |-> FALSE, tcp |-> Err(NoErr),
     zk_read |-> FALSE, zk |-> [ok |-> FALSE, err |-> NoErr, val |-> ZkNoResp]]

\* Variant for comparison: reply_id advances by two.
zk_send_command_skips(c, cmd, data, w, rx) ==
    LET frame == zk_build_packet(cmd, c.session_id, c.reply_id, data)
    IN  IF w # "ok"
        THEN [res |-> [ok |-> FALSE, err |-> ZkErr("Io", w), val |-> ZkNoResp],
              reply_id |-> c.reply_id,
              frame |-> frame]
        ELSE [res |-> zk_read_response(rx),
              reply_id |-> (c.reply_id + 2) % U16,
              frame |-> [frame EXCEPT !.sent = TRUE, !.read = TRUE]]

\* Variant for comparison: the request is written and the call returns
\* without reading a reply.
zk_send_command_no_read(c, cmd, data, w, rx) ==
    LET frame == zk_build_packet(cmd, c.session_id, c.reply_id, data)
    IN  IF w # "ok"
        THEN [res |-> [ok |-> FALSE, err |-> ZkErr("Io", w), val |-> ZkNoResp],
              reply_id |-> c.reply_id,
              frame |-> frame]
        ELSE [res |-> [ok |-> TRUE, err |-> NoErr, val |-> ZkNoResp],
              reply_id |-> (c.reply_id + 1) % U16,
              frame |-> [frame EXCEPT !.sent = TRUE]]

\* ZkTcpClient::send_command: build the packet with the current reply_id,
\* write_all (`?`: an error returns before the increment), reply_id
\* wrapping_add(1), read_response.
zk_send_command(c, cmd, data, w, rx) ==
    LET frame == zk_build_packet(cmd, c.session_id, c.reply_id, data)
    IN  IF w # "ok"
        THEN [res |-> [ok |-> FALSE, err |-> ZkErr("Io", w), val |-> ZkNoResp],
              reply_id |-> c.reply_id,
              frame |-> frame]
        ELSE [res |-> zk_read_response(rx),
              reply_id |-> (c.reply_id + 1) % U16,
              frame |-> [frame EXCEPT !.sent = TRUE, !.read = TRUE]]

ZkNone == [alive |-> FALSE, session_id |-> 0, reply_id |-> 0]

ZkLocNone == [total_size |-> 0, offset |-> 0, all_data |-> 0]

\* DeviceCapacity; NoCapacity where a call returns none.
DeviceCapacity(r, c, a) == [records |-> r, records_cap |-> c, records_av |-> a]

NoCapacity == DeviceCapacity(0, 0, 0)

ZkReturned(o, k, e, n) ==
    [op |-> o, ok |-> k, err |-> e, parsed |-> n, capacity |-> NoCapacity]

ZkNoResult == ZkReturned("none", FALSE, NoErr, 0)

\* ZkTcpClient::connect: TcpStream::connect, a client with session_id 0 and
\* reply_id 0, CMD_CONNECT, session_id from the reply.  When the command
\* fails the client value is dropped (Drop::drop runs).
zk_connect(tcp, w, rx) ==
    /\ zkpc = "none"
    /\ IF tcp # "ok"
       THEN /\ zkresult' = ZkReturned("connect", FALSE, ZkErr("Io", tcp), 0)
            /\ zkpc' = "gone"
            /\ UNCHANGED <<zk, zkwire, zksends>>
       ELSE LET sc == zk_send_command([ZkNone EXCEPT !.alive = TRUE], CMD_CONNECT, <<>>, w, rx)
            IN  /\ zkwire' = <<sc.frame>>
                /\ zksends' = zksends + 1
                /\ IF sc.res.ok
                   THEN /\ zk' = [alive |-> TRUE, session_id |-> sc.res.val.session_id,
                                  reply_id |-> sc.reply_id]
                        /\ zkresult' = ZkReturned("connect", TRUE, NoErr, 0)
                        /\ zkpc' = "idle"
                   ELSE /\ zk' = [alive |-> TRUE, session_id |-> 0, reply_id |-> sc.reply_id]
                        /\ zkresult' = ZkReturned("connect", FALSE, sc.res.err, 0)
                        /\ zkpc' = "drop"
    /\ zkloc' = ZkLocNone
    /\ UNCHANGED <<tcpvars, appvars, zklog, received, call>>

\* get_attendance returns Err(e) to its caller; the client stays alive.
zk_ga_fail(e) ==
    /\ zkresult' = ZkReturned("get_attendance", FALSE, e, 0)
    /\ zkpc' = "idle"

\* The effect on the client of one send_command of get_attendance, given
\* what zk_send_command returned.
zk_ga_sent(sc) ==
    /\ zk' = [zk EXCEPT !.reply_id = sc.reply_id]
    /\ zkwire' = IF zklog THEN Append(zkwire, sc.frame) ELSE zkwire
    /\ zksends' = IF zklog THEN zksends + 1 ELSE zksends

\* A chunk of n bytes was received: append, advance offset by the bytes
\* received, and test the loop condition offset < total_size.
zk_ga_chunk_done(n) ==
    /\ zkloc' = [zkloc EXCEPT !.all_data = @ + n, !.offset = @ + n]
    /\ zkpc' = IF zkloc.offset + n < zkloc.total_size THEN "ga_chunk" ELSE "ga_free"
    /\ UNCHANGED zkresult

\* What get_attendance does with a reply in its chunk loop: skip ACK_OK and
\* read again, take DATA, after ACK_DATA read the DATA frame, else fail.
zk_ga_on_reply(resp) ==
    IF resp.cmd = CMD_ACK_OK THEN zkpc' = "ga_skip_ack" /\ UNCHANGED <<zkloc, zkresult>>
    ELSE IF resp.cmd = CMD_DATA THEN zk_ga_chunk_done(resp.data.len)
    ELSE IF resp.cmd = CMD_ACK_DATA THEN zkpc' = "ga_data" /\ UNCHANGED <<zkloc, zkresult>>
    ELSE zk_ga_fail(ZkErr("InvalidResponse", "Expected CMD_DATA or CMD_ACK_DATA"))
         /\ UNCHANGED zkloc

\* get_attendance, first CMD_GET_FREE_SIZES.
zk_get_attendance(w, rx) ==
    /\ zkpc = "idle"
    /\ LET sc == zk_send_command(zk, CMD_GET_FREE_SIZES, <<>>, w, rx)
       IN  /\ zk_ga_sent(sc)
           /\ IF sc.res.ok THEN zkpc' = "ga_info" /\ zkresult' = ZkNoResult
              ELSE zk_ga_fail(sc.res.err)
    /\ zkloc' = ZkLocNone
    /\ UNCHANGED <<tcpvars, appvars, zklog, received, call>>

\* get_attendance, second CMD_GET_FREE_SIZES.
zk_ga_info(w, rx) ==
    /\ zkpc = "ga_info"
    /\ LET sc == zk_send_command(zk, CMD_GET_FREE_SIZES, <<>>, w, rx)
       IN  /\ zk_ga_sent(sc)
           /\ IF sc.res.ok THEN zkpc' = "ga_wrrq" /\ UNCHANGED zkresult
              ELSE zk_ga_fail(sc.res.err)
    /\ UNCHANGED zkloc
    /\ UNCHANGED <<tcpvars, appvars, zklog, received, call>>

\* get_attendance, CMD_DATA_WRRQ with TABLE_ATTLOG: the reply must be ACK_OK
\* with at least 5 bytes; total size from data[1..5]; enter the chunk loop.
zk_ga_wrrq(w, rx) ==
    /\ zkpc = "ga_wrrq"
    /\ LET sc == zk_send_command(zk, CMD_DATA_WRRQ, <<1, CMD_ATTLOG_RRQ, 0, 0>>, w, rx)
           resp == sc.res.val
       IN  /\ zk_ga_sent(sc)
           /\ IF ~sc.res.ok THEN zk_ga_fail(sc.res.err) /\ UNCHANGED zkloc
              ELSE IF resp.cmd # CMD_ACK_OK \/ resp.data.len < 5
              THEN zk_ga_fail(ZkErr("InvalidResponse", "Expected CMD_ACK_OK after DATA_WRRQ"))
                   /\ UNCHANGED zkloc
              ELSE /\ zkloc' = [total_size |-> resp.data.u32at1, offset |-> 0, all_data |-> 0]
                   /\ zkpc' = IF 0 < resp.data.u32at1 THEN "ga_chunk" ELSE "ga_free"
                   /\ UNCHANGED zkresult
    /\ UNCHANGED <<tcpvars, appvars, zklog, received, call>>

\* Bytes get_attendance requests at the current offset.
ZkRequestSize == IF zkloc.total_size - zkloc.offset < CHUNK_SIZE
                 THEN zkloc.total_size - zkloc.offset ELSE CHUNK_SIZE

\* get_attendance, one CMD_READ_CHUNK of the loop.
zk_ga_chunk(w, rx) ==
    /\ zkpc = "ga_chunk"
    /\ LET sc == zk_send_command(zk, CMD_READ_CHUNK, <<zkloc.offset, ZkRequestSize>>, w, rx)
       IN  /\ zk_ga_sent(sc)
           /\ IF sc.res.ok THEN zk_ga_on_reply(sc.res.val)
              ELSE zk_ga_fail(sc.res.err) /\ UNCHANGED zkloc
    /\ UNCHANGED <<tcpvars, appvars, zklog, received, call>>

\* get_attendance, `while response.cmd == CMD_ACK_OK`: one more read_response.
zk_ga_skip_ack(rx) ==
    /\ zkpc = "ga_skip_ack"
    /\ IF zk_read_response(rx).ok THEN zk_ga_on_reply(zk_read_response(rx).val)
       ELSE zk_ga_fail(zk_read_response(rx).err) /\ UNCHANGED zkloc
    /\ UNCHANGED <<zk, zkwire, zksends>>
    /\ UNCHANGED <<tcpvars, appvars, zklog, received, call>>

\* get_attendance, after ACK_DATA: read_response must bring DATA.
zk_ga_data(rx) ==
    /\ zkpc = "ga_data"
    /\ LET rd == zk_read_response(rx)
       IN  IF ~rd.ok THEN zk_ga_fail(rd.err) /\ UNCHANGED zkloc
           ELSE IF rd.val.cmd # CMD_DATA
           THEN zk_ga_fail(ZkErr("InvalidResponse", "Expected CMD_DATA after ACK_DATA"))
                /\ UNCHANGED zkloc
           ELSE zk_ga_chunk_done(rd.val.data.len)
    /\ UNCHANGED <<zk, zkwire, zksends>>
    /\ UNCHANGED <<tcpvars, appvars, zklog, received, call>>

\* get_attendance, after the loop: CMD_FREE_DATA with `?`, then the parse of
\* the downloaded bytes is returned.
zk_ga_free(w, rx) ==
    /\ zkpc = "ga_free"
    /\ LET sc == zk_send_command(zk, CMD_FREE_DATA, <<>>, w, rx)
       IN  /\ zk_ga_sent(sc)
           /\ IF sc.res.ok
              THEN /\ zkresult' = ZkReturned("get_attendance", TRUE, NoErr, zkloc.all_data)
                   /\ zkpc' = "idle"
              ELSE zk_ga_fail(sc.res.err)
    /\ UNCHANGED zkloc
    /\ UNCHANGED <<tcpvars, appvars, zklog, received, call>>

\* The reply a call inspected, recorded on the frame of its request.
zk_trip(sc) ==
    [sc.frame EXCEPT !.reply = IF sc.res.ok
                               THEN [got |-> TRUE, cmd |-> sc.res.val.cmd,
                                     data |-> sc.res.val.data]
                               ELSE ZkNoReply]

\* Replies to the GET_FREE_SIZES of get_capacity: any code; no body, 79
\* bytes, or 80 and 84 bytes of counters.
ZkRxCap ==
    RxFailures \cup
    {Frame(c, 0, d) : c \in {CMD_ACK_OK, 8888},
                      d \in {EmptyBody, Body(79, 0, 0)}
                            \cup {CapBody(l, CapWords(r)) : l \in {80, 84}, r \in RecordCounts}}

\* Replies to CLEAR_ATTLOG.
ZkRxClear == RxFailures \cup {Frame(c, 0, EmptyBody) : c \in ZkCodes}

\* Variant for comparison: idx is taken as a byte offset.
get_u32_unscaled(data, idx) == from_le_bytes(data.bytes, idx)

\* get_capacity's closure get_u32(idx): u32::from_le_bytes of the 4 bytes at
\* offset idx * 4.
get_u32(data, idx) ==
    LET offset == idx * 4
    IN  from_le_bytes(data.bytes, offset)

\* ZkTcpClient::get_capacity: one GET_FREE_SIZES; at least 80 bytes of reply
\* body; records, records_cap, records_av are counters 8, 16 and 19.
zk_get_capacity(w, rx) ==
    /\ zkpc = "idle"
    /\ LET sc == zk_send_command(zk, CMD_GET_FREE_SIZES, <<>>, w, rx)
           resp == sc.res.val
       IN  /\ zk' = [zk EXCEPT !.reply_id = sc.reply_id]
           /\ zkwire' = Append(zkwire, zk_trip(sc))
           /\ zksends' = zksends + 1
           /\ zkresult' =
                 IF ~sc.res.ok THEN ZkReturned("get_capacity", FALSE, sc.res.err, 0)
                 ELSE IF resp.data.len < 80
                 THEN ZkReturned("get_capacity", FALSE,
                                 ZkErr("InvalidResponse", "Expected 80 bytes for capacity info"), 0)
                 ELSE [ZkReturned("get_capacity", TRUE, NoErr, 0) EXCEPT
                          !.capacity = DeviceCapacity(get_u32(resp.data, 8),
                                                      get_u32(resp.data, 16),
                                                      get_u32(resp.data, 19))]
    /\ UNCHANGED <<zkpc, zkloc>>
    /\ UNCHANGED <<tcpvars, appvars, zklog, received, call>>

\* Variant for comparison: the reply code is not looked at.
zk_clear_attendance_any(w, rx) ==
    /\ zkpc = "idle"
    /\ LET sc == zk_send_command(zk, CMD_CLEAR_ATTLOG, <<>>, w, rx)
       IN  /\ zk' = [zk EXCEPT !.reply_id = sc.reply_id]
           /\ zkwire' = Append(zkwire, zk_trip(sc))
           /\ zksends' = zksends + 1
           /\ zkresult' =
                 IF ~sc.res.ok THEN ZkReturned("clear_attendance", FALSE, sc.res.err, 0)
                 ELSE ZkReturned("clear_attendance", TRUE, NoErr, 0)
    /\ UNCHANGED <<zkpc, zkloc>>
    /\ UNCHANGED <<tcpvars, appvars, zklog, received, call>>

\* ZkTcpClient::clear_attendance: one CLEAR_ATTLOG; the reply must be ACK_OK.
zk_clear_attendance(w, rx) ==
    /\ zkpc = "idle"
    /\ LET sc == zk_send_command(zk, CMD_CLEAR_ATTLOG, <<>>, w, rx)
       IN  /\ zk' = [zk EXCEPT !.reply_id = sc.reply_id]
           /\ zkwire' = Append(zkwire, zk_trip(sc))
           /\ zksends' = zksends + 1
           /\ zkresult' =
                 IF ~sc.res.ok THEN ZkReturned("clear_attendance", FALSE, sc.res.err, 0)
                 ELSE IF sc.res.val.cmd # CMD_ACK_OK
                 THEN ZkReturned("clear_attendance", FALSE,
                                 ZkErr("InvalidResponse", "Expected CMD_ACK_OK after clear"), 0)
                 ELSE ZkReturned("clear_attendance", TRUE, NoErr, 0)
    /\ UNCHANGED <<zkpc, zkloc>>
    /\ UNCHANGED <<tcpvars, appvars, zklog, received, call>>

\* Variant for comparison: the client is released without CMD_EXIT.
zk_drop_silent(w, rx) ==
    /\ zkpc \in {"idle", "drop"}
    /\ zk' = [zk EXCEPT !.alive = FALSE]
    /\ zkpc' = "gone"
    /\ UNCHANGED <<zkwire, zksends, zkresult, zkloc>>
    /\ UNCHANGED <<tcpvars, appvars, zklog, received, call>>

\* Drop::drop -> disconnect(): send_command(CMD_EXIT); an error is logged.
zk_drop(w, rx) ==
    /\ zkpc \in {"idle", "drop"}
    /\ LET sc == zk_send_command(zk, CMD_EXIT, <<>>, w, rx)
       IN  /\ zk' = [zk EXCEPT !.reply_id = sc.reply_id, !.alive = FALSE]
           /\ zkwire' = Append(zkwire, sc.frame)
           /\ zksends' = zksends + 1
    /\ zkpc' = "gone"
    /\ UNCHANGED <<zkresult, zkloc>>
    /\ UNCHANGED <<tcpvars, appvars, zklog, received, call>>

\* No sync-layer operation is running.
SyncNone == [op |-> "none", pc |-> "none", auto_clear_enabled |-> FALSE,
             auto_clear_threshold |-> 0, returned |-> FALSE, ok |-> FALSE,
             device_cleared |-> FALSE, calls |-> <<>>]

ZkInit ==
    /\ zk = ZkNone
    /\ zkpc = "none"
    /\ zkwire = <<>>
    /\ zkresult = ZkNoResult
    /\ zkloc = ZkLocNone
    /\ zksends = 0
    /\ zklog = TRUE
    /\ received = NotReceived
    /\ AppInit
    /\ call = NoCall
    /\ sync = SyncNone

----------------------------------------------------------------------------
(* The async client: ZkTcpClient::new, then any sequence of calls *)

TcpInit ==
    /\ stream = FALSE
    /\ session_id = 0
    /\ reply_id = 0
    /\ pc = "idle"
    /\ wire = <<>>
    /\ result = NoResult
    /\ xfer = XferNone
    /\ raw_data = 0
    /\ xferErr = NoErr
    /\ connReply = NoConnReply

Init == TcpInit /\ ZkInit

Next ==
    \/ /\ reply_id < MaxStartSeq
       /\ \E tcp \in TcpOutcomes, w \in WriteOutcomes :
            \E rx \in RxAfter(w, RxConnect) : connect(tcp, w, rx)
    \/ /\ reply_id < MaxStartSeq
       /\ \E w \in WriteOutcomes :
            \E rx \in RxAfter(w, RxPlain) : download_attendance(w, rx)
    \/ /\ reply_id < MaxStartSeq
       /\ \E w \in WriteOutcomes :
            \E rx \in RxAfter(w, RxCount) : get_attendance_count(w, rx)
    \/ \E w \in WriteOutcomes : disconnect(w)
    \/ \E w \in WriteOutcomes :
         \E rx \in RxAfter(w, RxPrepare) :
           \E raw \in RawAfter(w, rx) : read_with_buffer(w, rx, raw)
    \/ \E w \in WriteOutcomes :
         \E rx \in RxAfter(w, RxChunk(ChunkSize(xfer))) :
           \E raw \in RawAfter(w, rx), rx2 \in AckAfter(w, rx) :
             read_chunk(w, rx, raw, rx2)
    \/ \E w \in WriteOutcomes, rx \in RxPlain : rwb_free_data(w, rx)
    \/ \E w \in WriteOutcomes : \E rx \in RxAfter(w, RxPlain) : dl_enable(w, rx)
    \/ \E w \in WriteOutcomes : \E rx \in RxAfter(w, RxPlain) : dl_cleanup_free_data(w, rx)
    \/ \E w \in WriteOutcomes : \E rx \in RxAfter(w, RxPlain) : dl_cleanup_enable(w, rx)

Spec == Init /\ [][Next]_vars

----------------------------------------------------------------------------
(* sync.rs -- the closures SyncService runs in spawn_blocking.  Each connects
   a zk::ZkTcpClient, makes its calls with `?`, and drops the client when the
   closure returns. *)

SyncOps == {"sync_via_tcp", "sync_via_tcp_with_progress", "get_device_capacity",
            "clear_device", "test_device_connection"}

IsSync(op) == op \in {"sync_via_tcp", "sync_via_tcp_with_progress"}

\* config.sync.auto_clear_threshold
Thresholds == {100}

\* The closure of `op` is about to call ZkTcpClient::connect.
SyncStart(op, enabled, threshold) ==
    [op |-> op, pc |-> "connect", auto_clear_enabled |-> enabled,
     auto_clear_threshold |-> threshold, returned |-> FALSE, ok |-> FALSE,
     device_cleared |-> FALSE, calls |-> <<>>]

\* The closure returns: its value is decided, the client goes out of scope.
sync_return(sy, ok, cleared) ==
    [sy EXCEPT !.pc = "drop", !.returned = TRUE, !.ok = ok, !.device_cleared = cleared]

\* Variant for comparison: the device is cleared only above the threshold.
sync_after_strict(sy, r) ==
    IF sy.pc = "connect"
    THEN IF ~r.ok THEN sync_return(sy, FALSE, FALSE)
         ELSE IF IsSync(sy.op) THEN [sy EXCEPT !.pc = "get_attendance"]
         ELSE IF sy.op = "get_device_capacity" THEN [sy EXCEPT !.pc = "get_capacity"]
         ELSE IF sy.op = "clear_device" THEN [sy EXCEPT !.pc = "clear_attendance"]
         ELSE sync_return(sy, TRUE, FALSE)
    ELSE IF sy.pc = "get_attendance"
    THEN IF ~r.ok THEN sync_return(sy, FALSE, FALSE)
         ELSE IF sy.auto_clear_enabled THEN [sy EXCEPT !.pc = "get_capacity"]
         ELSE sync_return(sy, TRUE, FALSE)
    ELSE IF sy.pc = "get_capacity"
    THEN IF ~IsSync(sy.op) THEN sync_return(sy, r.ok, FALSE)
         ELSE IF ~r.ok THEN sync_return(sy, FALSE, FALSE)
         ELSE IF r.capacity.records > sy.auto_clear_threshold
         THEN [sy EXCEPT !.pc = "clear_attendance"]
         ELSE sync_return(sy, TRUE, FALSE)
    ELSE IF sy.pc = "clear_attendance"
    THEN IF ~IsSync(sy.op) THEN sync_return(sy, r.ok, FALSE)
         ELSE IF ~r.ok THEN sync_return(sy, FALSE, FALSE)
         ELSE sync_return(sy, TRUE, TRUE)
    ELSE [sy EXCEPT !.pc = "done"]

\* What the closure does with the value r that the client call at sy.pc
\* returned.
sync_after(sy, r) ==
    IF sy.pc = "connect"
    THEN IF ~r.ok THEN sync_return(sy, FALSE, FALSE)
         ELSE IF IsSync(sy.op) THEN [sy EXCEPT !.pc = "get_attendance"]
         ELSE IF sy.op = "get_device_capacity" THEN [sy EXCEPT !.pc = "get_capacity"]
         ELSE IF sy.op = "clear_device" THEN [sy EXCEPT !.pc = "clear_attendance"]
         ELSE sync_return(sy, TRUE, FALSE)
    ELSE IF sy.pc = "get_attendance"
    THEN IF ~r.ok THEN sync_return(sy, FALSE, FALSE)
         ELSE IF sy.auto_clear_enabled THEN [sy EXCEPT !.pc = "get_capacity"]
         ELSE sync_return(sy, TRUE, FALSE)
    ELSE IF sy.pc = "get_capacity"
    THEN IF ~IsSync(sy.op) THEN sync_return(sy, r.ok, FALSE)
         ELSE IF ~r.ok THEN sync_return(sy, FALSE, FALSE)
         ELSE IF r.capacity.records >= sy.auto_clear_threshold
         THEN [sy EXCEPT !.pc = "clear_attendance"]
         ELSE sync_return(sy, TRUE, FALSE)
    ELSE IF sy.pc = "clear_attendance"
    THEN IF ~IsSync(sy.op) THEN sync_return(sy, r.ok, FALSE)
         ELSE IF ~r.ok THEN sync_return(sy, FALSE, FALSE)
         ELSE sync_return(sy, TRUE, TRUE)
    ELSE [sy EXCEPT !.pc = "done"]

\* The client call at sy.pc returned r: it is added to `calls`, the client
\* calls the closure has made, each with its outcome.
sync_called(sy, r) ==
    IF sy.pc = "drop" THEN sy
    ELSE [sy EXCEPT !.calls = Append(@, [call |-> sy.pc, ok |-> r.ok,
                                         records |-> r.capacity.records])]

\* The closure's step that goes with a step of its client: nothing while the
\* client call is still running, sync_after once it has returned.  A client
\* that could not be constructed (TCP connect failed) is not dropped.
sync_step ==
    sync' = IF zkpc' \notin {"idle", "drop", "gone"} THEN sync
            ELSE IF sync.pc = "connect" /\ zkpc' = "gone"
            THEN [sync_after(sync_called(sync, zkresult'), zkresult') EXCEPT !.pc = "done"]
            ELSE sync_after(sync_called(sync, zkresult'), zkresult')

InitZk ==
    /\ TcpInit
    /\ zk = ZkNone
    /\ zkpc = "none"
    /\ zkwire = <<>>
    /\ zkresult = ZkNoResult
    /\ zkloc = ZkLocNone
    /\ zksends = 0
    /\ zklog = TRUE
    /\ received = NotReceived
    /\ AppInit
    /\ call = NoCall
    /\ \E op \in SyncOps, enabled \in BOOLEAN, threshold \in Thresholds :
          /\ ~IsSync(op) => ~enabled
          /\ sync = SyncStart(op, enabled, threshold)

NextZk ==
    \/ /\ sync.pc = "connect"
       /\ \E tcp \in TcpOutcomes, w \in WriteOutcomes :
            \E rx \in RxAfter(w, ZkRxPlain) : zk_connect(tcp, w, rx) /\ sync_step
    \/ /\ sync.pc = "get_attendance" /\ zksends < MaxZkSends
       /\ \E w \in WriteOutcomes :
            \E rx \in RxAfter(w, ZkRxPlain) : zk_get_attendance(w, rx) /\ sync_step
    \/ /\ sync.pc = "get_attendance" /\ zksends < MaxZkSends
       /\ \E w \in WriteOutcomes :
            \E rx \in RxAfter(w, ZkRxPlain) : zk_ga_info(w, rx) /\ sync_step
    \/ /\ sync.pc = "get_attendance" /\ zksends < MaxZkSends
       /\ \E w \in WriteOutcomes :
            \E rx \in RxAfter(w, ZkRxWrrq) : zk_ga_wrrq(w, rx) /\ sync_step
    \/ /\ sync.pc = "get_attendance" /\ zksends < MaxZkSends
       /\ \E w \in WriteOutcomes :
            \E rx \in RxAfter(w, ZkRxChunk(ZkRequestSize)) : zk_ga_chunk(w, rx) /\ sync_step
    \/ /\ sync.pc = "get_attendance" /\ zksends < MaxZkSends
       /\ \E w \in WriteOutcomes :
            \E rx \in RxAfter(w, ZkRxPlain) : zk_ga_free(w, rx) /\ sync_step
    \/ /\ sync.pc = "get_attendance"
       /\ \E rx \in ZkRxChunk(ZkRequestSize) : zk_ga_skip_ack(rx) /\ sync_step
    \/ /\ sync.pc = "get_attendance"
       /\ \E rx \in ZkRxChunk(ZkRequestSize) : zk_ga_data(rx) /\ sync_step
    \/ /\ sync.pc = "get_capacity"
       /\ \E w \in WriteOutcomes :
            \E rx \in RxAfter(w, ZkRxCap) : zk_get_capacity(w, rx) /\ sync_step
    \/ /\ sync.pc = "clear_attendance"
       /\ \E w \in WriteOutcomes :
            \E rx \in RxAfter(w, ZkRxClear) : zk_clear_attendance(w, rx) /\ sync_step
    \/ /\ sync.pc = "drop"
       /\ \E w \in WriteOutcomes :
            \E rx \in RxAfter(w, ZkRxPlain) : zk_drop(w, rx) /\ sync_step

\* The blocking client as the sync layer uses it: one operation connects,
\* makes its calls and drops the client.
SpecZk == InitZk /\ [][NextZk]_vars

----------------------------------------------------------------------------
(* One call of get_attendance on a connected client, against a device whose
   every read yields a well-formed frame or a timeout.  The frames are not
   recorded (zklog is FALSE) and the number of commands is not bounded; the
   thread keeps running (weak fairness of the next-state relation). *)

\* A read that yields a well-formed frame, or times out.
WellFormedOrTimeout(rx) ==
    /\ rx.magic_ok
    /\ rx.hdr \in {"ok", "timeout"}
    /\ rx.pay \in {"ok", "timeout"}
    /\ rx.tcp_length >= PAYLOAD_MIN_SIZE
    /\ rx.tcp_length <= MAX_PAYLOAD

\* The devices followed here: of those, the ones that answer with ACK_OK,
\* ACK_DATA or DATA and announce at most 100 bytes.
RxHang(set) ==
    {rx \in set : /\ WellFormedOrTimeout(rx)
                  /\ rx.code \in {0, CMD_ACK_OK, CMD_ACK_DATA, CMD_DATA}
                  /\ rx.data.u32at1 <= 100}

\* sync_via_tcp after ZkTcpClient::connect returned Ok (CMD_CONNECT took
\* sequence number 0).
InitHang ==
    /\ TcpInit
    /\ zk = [alive |-> TRUE, session_id |-> 0, reply_id |-> 1]
    /\ zkpc = "idle"
    /\ zkwire = <<>>
    /\ zkresult = ZkReturned("connect", TRUE, NoErr, 0)
    /\ zkloc = ZkLocNone
    /\ zksends = 0
    /\ zklog = FALSE
    /\ received = NotReceived
    /\ AppInit
    /\ call = NoCall
    /\ sync = [SyncStart("sync_via_tcp", FALSE, 100) EXCEPT !.pc = "get_attendance"]

NextHang ==
    \/ /\ sync.pc = "get_attendance"
       /\ \E w \in WriteOutcomes :
            \E rx \in RxAfter(w, RxHang(ZkRxPlain)) : zk_get_attendance(w, rx) /\ sync_step
    \/ /\ sync.pc = "get_attendance"
       /\ \E w \in WriteOutcomes :
            \E rx \in RxAfter(w, RxHang(ZkRxPlain)) : zk_ga_info(w, rx) /\ sync_step
    \/ /\ sync.pc = "get_attendance"
       /\ \E w \in WriteOutcomes :
            \E rx \in RxAfter(w, RxHang(ZkRxWrrq)) : zk_ga_wrrq(w, rx) /\ sync_step
    \/ /\ sync.pc = "get_attendance"
       /\ \E w \in WriteOutcomes :
            \E rx \in RxAfter(w, RxHang(ZkRxChunk(ZkRequestSize))) :
               zk_ga_chunk(w, rx) /\ sync_step
    \/ /\ sync.pc = "get_attendance"
       /\ \E w \in WriteOutcomes :
            \E rx \in RxAfter(w, RxHang(ZkRxPlain)) : zk_ga_free(w, rx) /\ sync_step
    \/ /\ sync.pc = "get_attendance"
       /\ \E rx \in RxHang(ZkRxChunk(ZkRequestSize)) : zk_ga_skip_ack(rx) /\ sync_step
    \/ /\ sync.pc = "get_attendance"
       /\ \E rx \in RxHang(ZkRxChunk(ZkRequestSize)) : zk_ga_data(rx) /\ sync_step

SpecHang == InitHang /\ [][NextHang]_vars /\ WF_vars(NextHang)

----------------------------------------------------------------------------
(* One received frame put to both read_response functions *)

\* Payload lengths a frame header announces.
ReadLengths == {0, 1, 7, 8, 9, 12, MAX_PAYLOAD, MAX_PAYLOAD + 1}

\* What can come off the socket when a reply is read: a header read that
\* times out or fails; 8 header bytes with wrong magic; right magic and an
\* announced payload whose read times out, fails, or delivers it, with a
\* checksum field (payload bytes 2-3) that matches the payload or does not.
RxSeen ==
    {Rx(h, TRUE, 0, "ok", 0, 0, EmptyBody) : h \in {"timeout", "failed"}}
    \cup {Rx("ok", FALSE, n, "ok", c, 0, Body(IF n > 8 THEN n - 8 ELSE 0, 0, 0)) :
             n \in ReadLengths, c \in {CMD_ACK_OK, CMD_DATA}}
    \cup {[Rx("ok", TRUE, n, p, c, 0, Body(IF n > 8 THEN n - 8 ELSE 0, 0, 0))
              EXCEPT !.checksum_ok = k] :
             n \in ReadLengths, p \in {"ok", "timeout", "failed"},
             c \in {CMD_ACK_OK, CMD_DATA}, k \in BOOLEAN}

\* zk_tcp::io::read_response on the frame.
io_read_response ==
    /\ ~received.tcp_read
    /\ received' = [received EXCEPT !.tcp_read = TRUE, !.tcp = read_response(received.rx)]
    /\ UNCHANGED <<tcpvars, appvars, zk, zkpc, zkwire, zkresult, zkloc, zksends, zklog, sync, call>>

\* zk::ZkTcpClient::read_response on the frame.
client_read_response ==
    /\ ~received.zk_read
    /\ received' = [received EXCEPT !.zk_read = TRUE, !.zk = zk_read_response(received.rx)]
    /\ UNCHANGED <<tcpvars, appvars, zk, zkpc, zkwire, zkresult, zkloc, zksends, zklog, sync, call>>

InitRead ==
    /\ TcpInit
    /\ zk = ZkNone
    /\ zkpc = "none"
    /\ zkwire = <<>>
    /\ zkresult = ZkNoResult
    /\ zkloc = ZkLocNone
    /\ zksends = 0
    /\ zklog = FALSE
    /\ sync = SyncNone
    /\ \E rx \in RxSeen : received = [NotReceived EXCEPT !.rx = rx]
    /\ AppInit
    /\ call = NoCall

NextRead ==
    \/ io_read_response
    \/ client_read_response

SpecRead == InitRead /\ [][NextRead]_vars

----------------------------------------------------------------------------
(* The offset arithmetic of ZkTcpClient::get_attendance at full u32 width *)

\* A u32 as its two 16-bit halves.
u32(hi, lo) == [hi |-> hi, lo |-> lo]

u32_lt(a, b) == a.hi < b.hi \/ (a.hi = b.hi /\ a.lo < b.lo)

\* a + b on u32: whether the sum passes u32::MAX, and the wrapped sum.
u32_add(a, b) ==
    LET lo == a.lo + b.lo
        hi == a.hi + b.hi + (lo \div U16)
    IN  [overflow |-> hi >= U16, val |-> u32(hi % U16, lo % U16)]

\* a - b on u32, for b <= a.
u32_sub(a, b) ==
    LET lo == a.lo - b.lo
    IN  u32(a.hi - b.hi - (IF lo < 0 THEN 1 ELSE 0), lo % U16)

\* `std::cmp::min(CHUNK_SIZE, total_size - offset)`.
wide_request_size(total_size, offset) ==
    LET rest == u32_sub(total_size, offset)
    IN  IF rest.hi = 0 /\ rest.lo < CHUNK_SIZE THEN rest ELSE u32(0, CHUNK_SIZE)

WideHalves == {0, 1, 32768, 65535}

\* total_size: any u32, read from data[1..5] of the DATA_WRRQ reply.
WideSizes == {u32(h, l) : h \in WideHalves, l \in WideHalves}

\* chunk_len: the body length of a DATA frame, at most u32::MAX - 8 since
\* read_response takes the payload size from a u32.
WideLens == {v \in WideSizes : ~u32_lt(u32(65535, 65527), v)}

\* get_attendance from `let mut offset: u32 = 0` on, for a device that
\* announced total_size.  overflow_checks: whether the build panics on
\* integer overflow (debug profile) or wraps (release profile).
WideStart(total_size, checks) ==
    [fn |-> "get_attendance", done |-> FALSE, total_size |-> total_size,
     offset |-> u32(0, 0), turns |-> 0, overflow_checks |-> checks,
     chunk_req |-> <<>>, chunk_len |-> u32(0, 0),
     at |-> IF u32_lt(u32(0, 0), total_size) THEN "loop" ELSE "free"]

\* One turn of `while offset < total_size` that received a DATA body of
\* chunk_len bytes: `offset += chunk_len`.  chunk_req is the offset and
\* size of the READ_CHUNK request of the turn.
ga_wide_turn(chunk_len) ==
    /\ call.fn = "get_attendance"
    /\ call.at = "loop"
    /\ call.turns < MaxWideTurns
    /\ LET sum == u32_add(call.offset, chunk_len)
           chunk_req == <<call.offset, wide_request_size(call.total_size, call.offset)>>
       IN  call' = IF sum.overflow /\ call.overflow_checks
                   THEN [call EXCEPT !.at = "panic", !.done = TRUE,
                                     !.chunk_req = chunk_req,
                                     !.chunk_len = chunk_len]
                   ELSE [call EXCEPT !.offset = sum.val,
                                     !.turns = @ + 1,
                                     !.chunk_req = chunk_req,
                                     !.chunk_len = chunk_len,
                                     !.at = IF u32_lt(sum.val, call.total_size)
                                            THEN "loop" ELSE "free"]
    /\ UNCHANGED <<tcpvars, appvars, zk, zkpc, zkwire, zkresult, zkloc, zksends, zklog, sync, received>>

\* After the loop: CMD_FREE_DATA, parse_attendance, return.
ga_wide_return ==
    /\ call.fn = "get_attendance"
    /\ call.at = "free"
    /\ call' = [call EXCEPT !.at = "returned", !.done = TRUE]
    /\ UNCHANGED <<tcpvars, appvars, zk, zkpc, zkwire, zkresult, zkloc, zksends, zklog, sync, received>>

InitWide ==
    /\ TcpInit
    /\ zk = [alive |-> TRUE, session_id |-> 0, reply_id |-> 4]
    /\ zkpc = "none"
    /\ zkwire = <<>>
    /\ zkresult = ZkNoResult
    /\ zkloc = ZkLocNone
    /\ zksends = 0
    /\ zklog = FALSE
    /\ sync = SyncNone
    /\ received = NotReceived
    /\ AppInit
    /\ \E t \in WideSizes, checks \in BOOLEAN : call = WideStart(t, checks)

NextWide ==
    \/ \E n \in WideLens : ga_wide_turn(n)
    \/ ga_wide_return

SpecWide == InitWide /\ [][NextWide]_vars

----------------------------------------------------------------------------
(* zk::protocol and zk_tcp::protocol on bytes: checksum, build_packet,
   parse_response *)

HEADER == <<80, 80, 130, 125>>

TCP_HEADER == <<80, 80, 130, 125>>

\* v[i] and v[a..b] of a Rust slice (indices from 0) on a sequence.
Byte(v, i) == v[i + 1]

Slice(v, a, b) == SubSeq(v, a + 1, b)

\* u16::to_le_bytes, u32::to_le_bytes, u16::from_le_bytes, u32::from_le_bytes.
u16_to_le(x) == <<x % 256, x \div 256>>

u32_to_le(x) == <<x % 256, (x \div 256) % 256, (x \div 65536) % 256, x \div 16777216>>

u16_from_le(v, i) == Byte(v, i) + Byte(v, i + 1) * 256

u32_from_le(v, i) ==
    Byte(v, i) + Byte(v, i + 1) * 256 + Byte(v, i + 2) * 65536 + Byte(v, i + 3) * 16777216

\* The loop over data.chunks(2) from offset i: a pair as a little-endian
\* u16, a single last byte as itself.
RECURSIVE chunks_sum(_, _)
chunks_sum(data, i) ==
    IF i >= Len(data) THEN 0
    ELSE (IF i + 2 <= Len(data) THEN u16_from_le(data, i) ELSE Byte(data, i))
         + chunks_sum(data, i + 2)

\* `while sum > 0xFFFF { sum = (sum & 0xFFFF) + (sum >> 16) }`
RECURSIVE fold_sum(_)
fold_sum(sum) ==
    IF sum > 65535 THEN fold_sum((sum % 65536) + (sum \div 65536)) ELSE sum

\* Variant for comparison: the carries are dropped, not added back.
calc_checksum_truncating(data) == 65535 - (chunks_sum(data, 0) % 65536)

\* zk::protocol::calc_checksum: `(!sum & 0xFFFF) as u16` of the folded sum.
calc_checksum(data) == 65535 - fold_sum(chunks_sum(data, 0))

calculate_checksum_unfolded(data) == 65535 - (chunks_sum(data, 0) % U16)

\* zk_tcp::protocol::calculate_checksum: `!sum as u16` of the folded sum.
calculate_checksum(data) == 65535 - fold_sum(chunks_sum(data, 0))

\* zk::protocol::build_packet, the bytes of the frame.
packet_bytes(cmd, sid, rid, data) ==
    LET inner_size == 8 + Len(data)
        chk_data == u16_to_le(cmd) \o u16_to_le(sid) \o u16_to_le(rid) \o data
        checksum == calc_checksum(chk_data)
        inner == u16_to_le(cmd) \o u16_to_le(checksum) \o u16_to_le(sid)
                   \o u16_to_le(rid) \o data
    IN  HEADER \o u32_to_le(inner_size) \o inner

\* zk_tcp::protocol::build_packet, the bytes of the frame and the reply_id
\* it leaves: the checksum is taken over packet[8..] with bytes 10-11 zero.
tcp_packet_bytes_whole_length(command, data, sid, rid) ==
    LET unsummed == TCP_HEADER \o u32_to_le(16 + Len(data))
                      \o u16_to_le(command) \o <<0, 0>>
                      \o u16_to_le(sid) \o u16_to_le(rid) \o data
        checksum == calculate_checksum(Slice(unsummed, 8, Len(unsummed)))
    IN  [packet |-> Slice(unsummed, 0, 10) \o u16_to_le(checksum)
                      \o Slice(unsummed, 12, Len(unsummed)),
         reply_id |-> (rid + 1) % U16]

tcp_packet_bytes(command, data, sid, rid) ==
    LET payload_len == PAYLOAD_MIN_SIZE + Len(data)
        unsummed == TCP_HEADER \o u32_to_le(payload_len) \o u16_to_le(command) \o <<0, 0>>
                      \o u16_to_le(sid) \o u16_to_le(rid) \o data
        checksum == calculate_checksum(Slice(unsummed, 8, Len(unsummed)))
    IN  [packet |-> Slice(unsummed, 0, 10) \o u16_to_le(checksum)
                      \o Slice(unsummed, 12, Len(unsummed)),
         reply_id |-> (rid + 1) % U16]

NoResponse == [ok |-> FALSE, err |-> "none", cmd |-> 0, session_id |-> 0,
               reply_id |-> 0, data |-> <<>>]

\* zk::protocol::parse_response.
parse_response(packet) ==
    IF Len(packet) < 8 THEN [NoResponse EXCEPT !.err = "Packet too small"]
    ELSE IF Slice(packet, 0, 4) # HEADER THEN [NoResponse EXCEPT !.err = "Invalid header"]
    ELSE LET payload_size == u32_from_le(packet, 4)
         IN  IF Len(packet) < 8 + payload_size
             THEN [NoResponse EXCEPT !.err = "Incomplete packet"]
             ELSE LET payload == Slice(packet, 8, 8 + payload_size)
                  IN  IF Len(payload) < 8
                      THEN [NoResponse EXCEPT !.err = "Payload too small"]
                      ELSE [ok |-> TRUE, err |-> "none",
                            cmd |-> u16_from_le(payload, 0),
                            session_id |-> u16_from_le(payload, 4),
                            reply_id |-> u16_from_le(payload, 6),
                            data |-> Slice(payload, 8, Len(payload))]

\* Arguments of build_packet: commands, session ids, sequence numbers up to
\* u16::MAX; bodies of even and odd length.
PacketWords == {0, 1, CMD_CONNECT, 65535}

PacketBodies == {<<>>, <<1>>, <<1, 2, 3, 4>>, <<255, 255, 255>>, <<255, 255, 0, 128, 7>>}

PacketCall(cmd, sid, rid, data) ==
    [fn |-> "build_packet", done |-> FALSE, cmd |-> cmd, session_id |-> sid,
     reply_id |-> rid, data |-> data,
     packet |-> <<>>, parsed |-> FALSE, response |-> NoResponse,
     tcp_built |-> FALSE, tcp |-> [packet |-> <<>>, reply_id |-> rid]]

protocol_build_packet ==
    /\ call.fn = "build_packet"
    /\ ~call.done
    /\ call' = [call EXCEPT !.done = TRUE,
                            !.packet = packet_bytes(call.cmd, call.session_id,
                                                    call.reply_id, call.data)]
    /\ UNCHANGED <<tcpvars, appvars, zk, zkpc, zkwire, zkresult, zkloc, zksends, zklog, sync, received>>

protocol_parse_response ==
    /\ call.fn = "build_packet"
    /\ call.done
    /\ ~call.parsed
    /\ call' = [call EXCEPT !.parsed = TRUE, !.response = parse_response(call.packet)]
    /\ UNCHANGED <<tcpvars, appvars, zk, zkpc, zkwire, zkresult, zkloc, zksends, zklog, sync, received>>

tcp_protocol_build_packet ==
    /\ call.fn = "build_packet"
    /\ ~call.tcp_built
    /\ call' = [call EXCEPT !.tcp_built = TRUE,
                            !.tcp = tcp_packet_bytes(call.cmd, call.data,
                                                     call.session_id, call.reply_id)]
    /\ UNCHANGED <<tcpvars, appvars, zk, zkpc, zkwire, zkresult, zkloc, zksends, zklog, sync, received>>

InitPacket ==
    /\ TcpInit
    /\ zk = ZkNone
    /\ zkpc = "none"
    /\ zkwire = <<>>
    /\ zkresult = ZkNoResult
    /\ zkloc = ZkLocNone
    /\ zksends = 0
    /\ zklog = FALSE
    /\ sync = SyncNone
    /\ received = NotReceived
    /\ AppInit
    /\ \E cmd \in PacketWords, sid \in PacketWords, rid \in PacketWords,
          data \in PacketBodies :
          call = PacketCall(cmd, sid, rid, data)

NextPacket ==
    \/ protocol_build_packet
    \/ protocol_parse_response
    \/ tcp_protocol_build_packet

SpecPacket == InitPacket /\ [][NextPacket]_vars

----------------------------------------------------------------------------
(* read_with_buffer on transfers of several chunks *)

\* Sizes the device announces: below one chunk, whole chunks, chunks and a rest.
ChunkTotals ==
    {0, 100, MAX_CHUNK, MAX_CHUNK + 100, 2 * MAX_CHUNK, 2 * MAX_CHUNK + 100,
     3 * MAX_CHUNK + 1}

\* download_attendance after CONNECT and DISABLE_DEVICE were answered.
InitChunks ==
    /\ stream = TRUE
    /\ session_id = 0
    /\ reply_id = 2
    /\ pc = "read_with_buffer"
    /\ wire = send_command(TRUE, 0, 1, CMD_DISABLEDEVICE, <<>>, "ok", RxUnused).trips
    /\ result = NoResult
    /\ xfer = XferNone
    /\ raw_data = 0
    /\ xferErr = NoErr
    /\ connReply = [got |-> TRUE, sid |-> 0]
    /\ ZkInit

\* The device announces a size; it answers READ_BUFFER with the data, with
\* an acknowledgement in place of the data, or not at all.
NextChunks ==
    \/ \E rx \in {Frame(CMD_PREPARE_DATA, 0, PrepareBody(t)) : t \in ChunkTotals} :
         read_with_buffer("ok", rx, "full")
    \/ \E rx \in {Frame(CMD_DATA, 0, Body(ChunkSize(xfer), 0, 0)),
                  Frame(CMD_ACK_OK, 0, EmptyBody),
                  Rx("timeout", TRUE, 0, "ok", 0, 0, EmptyBody)} :
         read_chunk("ok", rx, "full", RxUnused)
    \/ rwb_free_data("ok", RxUnused)

SpecChunks == InitChunks /\ [][NextChunks]_vars

----------------------------------------------------------------------------
(* The record decoders, zk::attendance and zk_tcp::parser, each as one call
   of a pure function on a byte buffer *)

RECORD_SIZE == 40

DATA_PREFIX_SIZE == 4

\* The tuple decode_zk_timestamp returns, and the arguments of
\* Local.with_ymd_and_hms.
DateTime(y, mo, d, h, mi, s) ==
    [year |-> y, month |-> mo, day |-> d, hour |-> h, minute |-> mi, second |-> s]

decode_zk_timestamp_30(encoded) ==
    LET v1 == encoded \div 60
        v2 == v1 \div 60
        v3 == v2 \div 24
        v4 == v3 \div 30
        v5 == v4 \div 12
    IN  DateTime((v5 % U16) + 2000, (v4 % 12) + 1, (v3 % 30) + 1,
                 v2 % 24, v1 % 60, encoded % 60)

\* `val % 60; val /= 60; ...` on the u32; `val as u16` for the year.
decode_zk_timestamp(encoded) ==
    LET v1 == encoded \div 60
        v2 == v1 \div 60
        v3 == v2 \div 24
        v4 == v3 \div 31
        v5 == v4 \div 12
    IN  DateTime((v5 % U16) + 2000, (v4 % 12) + 1, (v3 % 31) + 1,
                 v2 % 24, v1 % 60, encoded % 60)

\* Option<T>: None, Some(v).
None == [some |-> FALSE]

Some(v) == [some |-> TRUE, val |-> v]

\* iter().position(|&b| b == 0).unwrap_or(len): the index of the first NUL
\* of a field, the field's length when it has none.
position_nul(field) ==
    IF \E i \in 1..Len(field) : field[i] = 0
    THEN (CHOOSE i \in 1..Len(field) :
             field[i] = 0 /\ \A j \in 1..(i - 1) : field[j] # 0) - 1
    ELSE Len(field)

\* The digits of an unsigned decimal number, most significant first, added
\* to acc; None at a byte that is no ASCII digit and at a value above max
\* (max = 10 * max10 + maxd).
RECURSIVE parse_digits(_, _, _, _)
parse_digits(s, acc, max10, maxd) ==
    IF s = <<>> THEN Some(acc)
    ELSE IF Head(s) < 48 \/ Head(s) > 57 THEN None
    ELSE IF acc > max10 \/ (acc = max10 /\ Head(s) - 48 > maxd) THEN None
    ELSE parse_digits(Tail(s), acc * 10 + (Head(s) - 48), max10, maxd)

\* std::str::from_utf8(field).ok()?.parse::<u32>().ok(): an optional '+',
\* then one digit or more, the value at most u32::MAX.  A byte above 127 is
\* invalid UTF-8 or part of a character that is no digit: None either way.
parse_u32(s) ==
    LET digits == IF s # <<>> /\ Head(s) = 43 THEN Tail(s) ELSE s
    IN  IF digits = <<>> THEN None ELSE parse_digits(digits, 0, 429496729, 5)

\* chrono's calendar: the days of a month of the proleptic Gregorian year.
days_in_month(year, month) ==
    IF month = 2
    THEN (IF year % 4 = 0 /\ (year % 100 # 0 \/ year % 400 = 0) THEN 29 ELSE 28)
    ELSE IF month \in {4, 6, 9, 11} THEN 30 ELSE 31

\* Local.with_ymd_and_hms(..).single(), Local.from_local_datetime(..).single():
\* None for a date the calendar does not have, and for a local time the
\* zone has twice or not at all (`unresolved`, the zone's choice).
local_single(dt, unresolved) ==
    IF dt.day > days_in_month(dt.year, dt.month) \/ dt \in unresolved
    THEN None ELSE Some(dt)

parse_record_keeping_zero(chunk, unresolved) ==
    LET encoded_ts == u32_from_le(chunk, 27)
        uid_bytes == Slice(chunk, 2, 12)
        user_id == parse_u32(Slice(uid_bytes, 0, position_nul(uid_bytes)))
        datetime == local_single(decode_zk_timestamp(encoded_ts), unresolved)
    IN  IF ~user_id.some \/ ~datetime.some THEN None
        ELSE Some([user_id |-> user_id.val, timestamp |-> datetime.val])

\* The filter_map closure of parse_attendance on one 40-byte chunk.
parse_record(chunk, unresolved) ==
    LET encoded_ts == u32_from_le(chunk, 27)
        uid_bytes == Slice(chunk, 2, 12)
        user_id == parse_u32(Slice(uid_bytes, 0, position_nul(uid_bytes)))
        datetime == local_single(decode_zk_timestamp(encoded_ts), unresolved)
    IN  IF encoded_ts = 0 THEN None
        ELSE IF ~user_id.some THEN None
        ELSE IF ~datetime.some THEN None
        ELSE Some([user_id |-> user_id.val, timestamp |-> datetime.val])

\* chunks_exact(RECORD_SIZE).filter_map(..).collect() from chunk i on.
RECURSIVE filter_map_chunks(_, _, _)
filter_map_chunks(body, i, unresolved) ==
    IF (i + 1) * RECORD_SIZE > Len(body) THEN <<>>
    ELSE LET r == parse_record(Slice(body, i * RECORD_SIZE, (i + 1) * RECORD_SIZE),
                               unresolved)
         IN  (IF r.some THEN <<r.val>> ELSE <<>>)
               \o filter_map_chunks(body, i + 1, unresolved)

parse_attendance_failfast(data, unresolved) ==
    LET body == Slice(data, DATA_PREFIX_SIZE, Len(data))
        n == Len(body) \div RECORD_SIZE
        bad == {i \in 0..(n - 1) :
                   ~parse_record(Slice(body, i * RECORD_SIZE, (i + 1) * RECORD_SIZE),
                                 unresolved).some}
    IN  IF Len(data) < DATA_PREFIX_SIZE + RECORD_SIZE \/ bad # {} THEN <<>>
        ELSE filter_map_chunks(body, 0, unresolved)

\* zk::attendance::parse_attendance.
parse_attendance(data, unresolved) ==
    IF Len(data) < DATA_PREFIX_SIZE + RECORD_SIZE THEN <<>>
    ELSE filter_map_chunks(Slice(data, DATA_PREFIX_SIZE, Len(data)), 0, unresolved)

\* str::trim on ASCII text: tab, LF, VT, FF, CR and space go from both ends.
RECURSIVE trim(_)
trim(s) ==
    IF s = <<>> THEN s
    ELSE IF Head(s) \in {9, 10, 11, 12, 13, 32} THEN trim(Tail(s))
    ELSE IF s[Len(s)] \in {9, 10, 11, 12, 13, 32} THEN trim(SubSeq(s, 1, Len(s) - 1))
    ELSE s

\* str::split(sep) (and lines(), whose rest after the last LF is dropped
\* when empty and whose lines are trimmed by the caller): the pieces of s
\* between the occurrences of sep.
RECURSIVE split(_, _)
split(s, sep) ==
    IF \A i \in 1..Len(s) : s[i] # sep THEN <<s>>
    ELSE LET i == CHOOSE k \in 1..Len(s) : s[k] = sep /\ \A j \in 1..(k - 1) : s[j] # sep
         IN  <<SubSeq(s, 1, i - 1)>> \o split(SubSeq(s, i + 1, Len(s)), sep)

\* str::parse::<i32>(): an optional sign, then one digit or more, the value
\* within i32.
parse_i32(s) ==
    LET neg == s # <<>> /\ Head(s) = 45
        digits == IF s # <<>> /\ Head(s) \in {43, 45} THEN Tail(s) ELSE s
        n == parse_digits(digits, 0, 214748364, IF neg THEN 8 ELSE 7)
    IN  IF digits = <<>> \/ ~n.some THEN None
        ELSE Some(IF neg THEN 0 - n.val ELSE n.val)

\* The date `days` days after the first of the month, by whole years from
\* a first of January, then by whole months.
RECURSIVE date_after(_, _, _)
date_after(year, month, days) ==
    IF month = 1 /\ days >= 337 + days_in_month(year, 2)
    THEN date_after(year + 1, 1, days - (337 + days_in_month(year, 2)))
    ELSE IF days < days_in_month(year, month)
    THEN [year |-> year, month |-> month, day |-> days + 1]
    ELSE date_after(IF month = 12 THEN year + 1 ELSE year,
                    IF month = 12 THEN 1 ELSE month + 1,
                    days - days_in_month(year, month))

\* NaiveDate::from_ymd_opt(2000, 1, 1).and_hms_opt(0, 0, 0) +
\* Duration::seconds(timestamp_raw).
naive_after_base(timestamp_raw) ==
    LET date == date_after(2000, 1, timestamp_raw \div 86400)
        sod == timestamp_raw % 86400
    IN  DateTime(date.year, date.month, date.day, sod \div 3600, (sod \div 60) % 60, sod % 60)

CreateAttendanceLog(uid, t, v, s) ==
    [scanner_uid |-> uid, check_time |-> t, verify_type |-> v, status |-> s,
     source |-> "device"]

\* The loop body of parse_binary_format on one 40-byte chunk: the record
\* pushed, None where the loop continues.
binary_record(chunk, unresolved) ==
    LET user_id_end == position_nul(Slice(chunk, 0, 9))
        scanner_uid == parse_i32(trim(Slice(chunk, 0, user_id_end)))
        timestamp_raw == u32_from_le(chunk, 24)
        check_time == local_single(naive_after_base(timestamp_raw), unresolved)
    IN  IF ~scanner_uid.some THEN None
        ELSE IF ~check_time.some THEN None
        ELSE Some(CreateAttendanceLog(scanner_uid.val, check_time.val,
                                      Byte(chunk, 28), Byte(chunk, 29)))

\* for chunk in data.chunks_exact(RECORD_SIZE), from chunk i on.
RECURSIVE parse_binary_chunks(_, _, _)
parse_binary_chunks(data, i, unresolved) ==
    IF (i + 1) * RECORD_SIZE > Len(data) THEN <<>>
    ELSE LET r == binary_record(Slice(data, i * RECORD_SIZE, (i + 1) * RECORD_SIZE),
                                unresolved)
         IN  (IF r.some THEN <<r.val>> ELSE <<>>)
               \o parse_binary_chunks(data, i + 1, unresolved)

parse_binary_format(data, unresolved) == parse_binary_chunks(data, 0, unresolved)

\* parse_local_timestamp on text written as YYYY-MM-DD HH:MM:SS (the only
\* spelling of a date among the buffers decoded here); an error otherwise.
parse_local_timestamp(s, unresolved) ==
    LET num(a, b) == parse_digits(SubSeq(s, a, b), 0, 214748364, 7)
    IN  IF Len(s) # 19 \/ s[5] # 45 \/ s[8] # 45 \/ s[11] # 32 \/ s[14] # 58 \/ s[17] # 58
        THEN None
        ELSE IF \E f \in {num(1, 4), num(6, 7), num(9, 10), num(12, 13), num(15, 16),
                          num(18, 19)} : ~f.some
        THEN None
        ELSE IF num(6, 7).val \notin 1..12 \/ num(9, 10).val < 1 \/ num(12, 13).val > 23
                  \/ num(15, 16).val > 59 \/ num(18, 19).val > 59
        THEN None
        ELSE local_single(DateTime(num(1, 4).val, num(6, 7).val, num(9, 10).val,
                                   num(12, 13).val, num(15, 16).val, num(18, 19).val),
                          unresolved)

\* The loop body of parse_text_format on one line.
text_record(line, unresolved) ==
    LET parts == split(trim(line), 9)
        scanner_uid == parse_i32(trim(parts[1]))
        check_time == parse_local_timestamp(trim(parts[3]), unresolved)
        verify_type == parse_i32(trim(parts[4]))
        status == parse_i32(trim(parts[5]))
    IN  IF trim(line) = <<>> THEN None
        ELSE IF Len(parts) < 5 THEN None
        ELSE IF ~scanner_uid.some THEN None
        ELSE IF ~check_time.some THEN None
        ELSE Some(CreateAttendanceLog(scanner_uid.val, check_time.val,
                                      IF verify_type.some THEN verify_type.val ELSE 2,
                                      IF status.some THEN status.val ELSE 0))

RECURSIVE parse_text_lines(_, _)
parse_text_lines(lines, unresolved) ==
    IF lines = <<>> THEN <<>>
    ELSE LET r == text_record(Head(lines), unresolved)
         IN  (IF r.some THEN <<r.val>> ELSE <<>>) \o parse_text_lines(Tail(lines), unresolved)

\* parse_text_format on ASCII text (from_utf8_lossy changes no byte of it).
parse_text_format(data, unresolved) == parse_text_lines(split(data, 10), unresolved)

\* The bytes of the first 100 that are tab, LF or CR.
is_text_count(data) ==
    Cardinality({i \in 1..Len(data) : i <= 100 /\ data[i] \in {9, 10, 13}})

\* zk_tcp::parser::parse_attendance_data: Ok(records) for every buffer.
parser_parse_attendance_data(data, unresolved) ==
    LET rest == IF Len(data) > 4 /\ u32_from_le(data, 0) = Len(data) - 4
                THEN Slice(data, 4, Len(data)) ELSE data
    IN  IF data = <<>> \/ rest = <<>> THEN <<>>
        ELSE IF is_text_count(rest) > 2 THEN parse_text_format(rest, unresolved)
        ELSE parse_binary_format(rest, unresolved)

\* The packing formula of the device, as decode_zk_timestamp documents it.
pack_zk_timestamp(f) ==
    (((((f.year - 2000) * 12 + f.month - 1) * 31 + f.day - 1) * 24 + f.hour) * 60
        + f.minute) * 60 + f.second

\* Date-times put to the packing formula: first and last values of every
\* field, days no month has, years up to the last whose packed values stay
\* below 2^31.
PackedFields ==
    {DateTime(y, mo, d, h, mi, s) :
        y \in {2000, 2024, 2025, 2065}, mo \in {1, 2, 12}, d \in {1, 29, 31},
        h \in {0, 8, 23}, mi \in {0, 59}, s \in {0, 12, 59}}

\* The packed timestamp 0x3189c93c of test_parse_single_record.
TestTimestamp == 831113532

EncodedInputs == {pack_zk_timestamp(f) : f \in PackedFields} \cup {0, 86400, TestTimestamp}

\* n bytes b, and a field of n bytes holding s and then NULs.
Fill(n, b) == [i \in 1..n |-> b]

Pad(s, n) == s \o Fill(n - Len(s), 0)

\* A 40-byte record as zk::attendance lays it out: user id at 2..12, packed
\* timestamp at 27..31, the bytes it does not read set to `fill`.
zk_record(uid, ts, fill) ==
    Fill(2, fill) \o Pad(uid, 10) \o Fill(15, fill) \o u32_to_le(ts) \o Fill(9, fill)

\* Records of a device: ids "123", "20" and the ten digits "1234567890" with
\* real dates; id "65" with an all-zero timestamp; ids "1a" and "" with a
\* real date; id "77" on February 30th.
ZkRecords ==
    {zk_record(<<49, 50, 51>>, TestTimestamp, 0),
     zk_record(<<50, 48>>, 86400, 7),
     zk_record(<<49, 50, 51, 52, 53, 54, 55, 56, 57, 48>>, TestTimestamp + 1, 0),
     zk_record(<<54, 53>>, 0, 0),
     zk_record(<<54, 53>>, 0, 7),
     zk_record(<<49, 97>>, 86400, 0),
     zk_record(<<>>, 172800, 0),
     zk_record(<<55, 55>>, pack_zk_timestamp(DateTime(2025, 2, 30, 8, 0, 0)), 0)}

\* A 40-byte record as zk_tcp::parser lays it out: user id at 0..9, seconds
\* since 2000-01-01 at 24..28, verify type at 28, status at 29.
tcp_record(uid, ts, verify, status) ==
    Pad(uid, 24) \o u32_to_le(ts) \o <<verify, status>> \o Fill(10, 0)

\* Ids "20", "65" and "123456789" one, two and 9619 days after 2000-01-01;
\* id "20" at 2000-01-08 14:45:30 (657930 s, bytes 0A 0A 0A 00); id "x".
TcpRecords ==
    {tcp_record(<<50, 48>>, 86400, 2, 0),
     tcp_record(<<54, 53>>, 172800, 2, 0),
     tcp_record(<<49, 50, 51, 52, 53, 54, 55, 56, 57>>, TestTimestamp, 1, 1),
     tcp_record(<<50, 48>>, 657930, 2, 0),
     tcp_record(<<120>>, 86400, 2, 0)}

\* The text of test_parse_text_format:
\* "20\t\t2025-12-02 07:36:58\t2\t0\n65\t\t2025-12-02 08:15:23\t2\t0\n".
TextBuffer ==
    <<50, 48, 9, 9, 50, 48, 50, 53, 45, 49, 50, 45, 48, 50, 32, 48, 55, 58, 51, 54,
      58, 53, 56, 9, 50, 9, 48, 10,
      54, 53, 9, 9, 50, 48, 50, 53, 45, 49, 50, 45, 48, 50, 32, 48, 56, 58, 49, 53,
      58, 50, 51, 9, 50, 9, 48, 10>>

\* The concatenations of at most n records of S.
RECURSIVE RecordRuns(_, _)
RecordRuns(S, n) ==
    IF n = 0 THEN {<<>>}
    ELSE RecordRuns(S, n - 1) \cup {r \o b : r \in S, b \in RecordRuns(S, n - 1)}

\* What precedes the records: nothing, four NULs, the size of what follows.
Prefixed(kind, rest) ==
    CASE kind = "none" -> rest
      [] kind = "zero" -> Fill(4, 0) \o rest
      [] kind = "size" -> u32_to_le(Len(rest)) \o rest

Buffers(S) ==
    {Prefixed(kind, run \o tail) :
        kind \in {"none", "zero", "size"}, run \in RecordRuns(S, MaxRecords),
        tail \in {<<>>, <<1, 2, 3>>}}

\* The local times the zone of the host has twice or not at all: none, or
\* the time of the test record.
Unresolved == {{}, {decode_zk_timestamp(TestTimestamp), naive_after_base(TestTimestamp)}}

DecodeCall(fn, data, unresolved) ==
    [fn |-> fn, done |-> FALSE, data |-> data, unresolved |-> unresolved, out |-> <<>>]

zk_decode_zk_timestamp ==
    /\ call.fn = "decode_zk_timestamp"
    /\ ~call.done
    /\ call' = [call EXCEPT !.done = TRUE, !.out = decode_zk_timestamp(call.data)]
    /\ UNCHANGED <<tcpvars, appvars, zk, zkpc, zkwire, zkresult, zkloc, zksends, zklog, sync, received>>

zk_parse_attendance ==
    /\ call.fn = "parse_attendance"
    /\ ~call.done
    /\ call' = [call EXCEPT !.done = TRUE,
                            !.out = parse_attendance(call.data, call.unresolved)]
    /\ UNCHANGED <<tcpvars, appvars, zk, zkpc, zkwire, zkresult, zkloc, zksends, zklog, sync, received>>

tcp_parse_attendance_data ==
    /\ call.fn = "parse_attendance_data"
    /\ ~call.done
    /\ call' = [call EXCEPT !.done = TRUE,
                            !.out = parser_parse_attendance_data(call.data, call.unresolved)]
    /\ UNCHANGED <<tcpvars, appvars, zk, zkpc, zkwire, zkresult, zkloc, zksends, zklog, sync, received>>

InitDecode ==
    /\ TcpInit
    /\ zk = ZkNone
    /\ zkpc = "none"
    /\ zkwire = <<>>
    /\ zkresult = ZkNoResult
    /\ zkloc = ZkLocNone
    /\ zksends = 0
    /\ zklog = FALSE
    /\ sync = SyncNone
    /\ received = NotReceived
    /\ AppInit
    /\ \/ \E e \in EncodedInputs : call = DecodeCall("decode_zk_timestamp", e, {})
       \/ \E data \in Buffers(ZkRecords), u \in Unresolved :
             call = DecodeCall("parse_attendance", data, u)
       \/ \E data \in Buffers(TcpRecords) \cup {TextBuffer}, u \in Unresolved :
             call = DecodeCall("parse_attendance_data", data, u)

NextDecode ==
    \/ zk_decode_zk_timestamp
    \/ zk_parse_attendance
    \/ tcp_parse_attendance_data

SpecDecode == InitDecode /\ [][NextDecode]_vars

----------------------------------------------------------------------------
(* sync.rs, db/attendance.rs -- one SyncService::sync_via_tcp (or
   sync_via_tcp_with_progress) against a terminal that goes on recording
   punches: the closure run by spawn_blocking, then insert_batch and the
   SyncResult.  Each call of the blocking client is one step here, with the
   outcome the client reports; the terminal answers honestly: get_attendance
   returns the log as it is, get_capacity counts it, CMD_CLEAR_ATTLOG erases
   all of it. *)

\* Punches the terminal records while one sync runs.
MaxPunches == 2

INSERT_BATCH_SIZE == 500

\* Records in the terminal's log when the sync starts.
DeviceSizes == {0, 99, 100, 500}

\* The terminal with the records 1..n in its log.
DeviceWith(n) == [log |-> [i \in 1..n |-> i], next |-> n + 1, erased |-> {}]

ServiceStart ==
    [pc |-> "blocking", records |-> <<>>, device_cleared |-> FALSE,
     downloaded |-> 0, inserted |-> 0, skipped |-> 0, ok |-> FALSE,
     insert_failed |-> FALSE, punches |-> 0]

Range(s) == {s[i] : i \in DOMAIN s}

\* What a call of the blocking client returned to the closure.
Called(ok, records) == [ok |-> ok, capacity |-> DeviceCapacity(records, 0, 0)]

clientvars == <<tcpvars, zk, zkpc, zkwire, zkresult, zkloc, zksends, zklog, received, call>>

\* A punch: the terminal appends a record to its log.  The blocking client
\* sends no CMD_DISABLEDEVICE, so the terminal records at any time.
device_punch ==
    /\ service.pc \in {"blocking", "insert"}
    /\ service.punches < MaxPunches
    /\ device' = [device EXCEPT !.log = Append(@, device.next), !.next = @ + 1]
    /\ service' = [service EXCEPT !.punches = @ + 1]
    /\ UNCHANGED <<clientvars, sync, store, app, tasks>>

\* ZkTcpClient::connect(&addr)?
closure_connect(ok) ==
    /\ service.pc = "blocking" /\ sync.pc = "connect"
    /\ sync' = sync_after(sync_called(sync, Called(ok, 0)), Called(ok, 0))
    /\ UNCHANGED <<clientvars, device, store, service, app, tasks>>

\* client.get_attendance()?
closure_get_attendance(ok) ==
    /\ service.pc = "blocking" /\ sync.pc = "get_attendance"
    /\ sync' = sync_after(sync_called(sync, Called(ok, 0)), Called(ok, 0))
    /\ service' = IF ok THEN [service EXCEPT !.records = device.log] ELSE service
    /\ UNCHANGED <<clientvars, device, store, app, tasks>>

\* client.get_capacity()?
closure_get_capacity(ok) ==
    /\ service.pc = "blocking" /\ sync.pc = "get_capacity"
    /\ LET r == Called(ok, IF ok THEN Len(device.log) ELSE 0)
       IN  sync' = sync_after(sync_called(sync, r), r)
    /\ UNCHANGED <<clientvars, device, store, service, app, tasks>>

\* client.clear_attendance()?  A call that fails erased nothing.
closure_clear_attendance(ok) ==
    /\ service.pc = "blocking" /\ sync.pc = "clear_attendance"
    /\ sync' = sync_after(sync_called(sync, Called(ok, 0)), Called(ok, 0))
    /\ device' = IF ok THEN [device EXCEPT !.log = <<>>, !.erased = Range(device.log)]
                 ELSE device
    /\ UNCHANGED <<clientvars, store, service, app, tasks>>

\* The closure returns, the client is dropped, and `.await ... ??` hands
\* (records, device_cleared) to the future or returns the error.
spawn_blocking_returns ==
    /\ service.pc = "blocking" /\ sync.pc = "drop"
    /\ sync' = sync_after(sync, Called(TRUE, 0))
    /\ service' = IF sync.ok
                  THEN [service EXCEPT !.pc = "insert",
                                       !.device_cleared = sync.device_cleared,
                                       !.downloaded = Len(service.records)]
                  ELSE [service EXCEPT !.pc = "returned", !.ok = FALSE]
    /\ UNCHANGED <<clientvars, device, store, app, tasks>>

\* records.chunks(INSERT_BATCH_SIZE)
NumBatches(total) == (total + INSERT_BATCH_SIZE - 1) \div INSERT_BATCH_SIZE

Batch(records, k) ==
    SubSeq(records, (k - 1) * INSERT_BATCH_SIZE + 1,
           IF k * INSERT_BATCH_SIZE < Len(records) THEN k * INSERT_BATCH_SIZE
           ELSE Len(records))

\* The loop of insert_batch_with_progress from chunk k on: execs[k] tells
\* whether the INSERT of chunk k was executed or returned a DbErr, which
\* `.ok()` discards.  ON CONFLICT DO NOTHING: rows are a set.
RECURSIVE insert_chunks(_, _, _, _)
insert_chunks(rows, records, execs, k) ==
    IF k > NumBatches(Len(records)) THEN rows
    ELSE insert_chunks(IF execs[k] THEN rows \cup Range(Batch(records, k)) ELSE rows,
                       records, execs, k + 1)

\* insert_batch: the rows of the table afterwards and the value returned.
insert_batch(rows, records, execs) ==
    IF records = <<>> THEN [rows |-> rows, val |-> Ok(0)]
    ELSE [rows |-> insert_chunks(rows, records, execs, 1), val |-> Ok(Len(records))]

saturating_sub(a, b) == IF a < b THEN 0 ELSE a - b

\* sync_via_tcp from `let downloaded` on: insert_batch(...).await? and the
\* SyncResult.
sync_insert_batch ==
    /\ service.pc = "insert"
    /\ \E execs \in [1..NumBatches(Len(service.records)) -> BOOLEAN] :
         LET r == insert_batch(store, service.records, execs)
         IN  /\ store' = r.rows
             /\ service' =
                  IF r.val.ok
                  THEN [service EXCEPT !.pc = "returned", !.ok = TRUE,
                           !.inserted = r.val.val,
                           !.skipped = saturating_sub(service.downloaded, r.val.val),
                           !.insert_failed = \E k \in DOMAIN execs : ~execs[k]]
                  ELSE [service EXCEPT !.pc = "returned", !.ok = FALSE,
                           !.insert_failed = TRUE]
    /\ UNCHANGED <<clientvars, sync, device, app, tasks>>

InitStore ==
    /\ TcpInit
    /\ zk = ZkNone
    /\ zkpc = "none"
    /\ zkwire = <<>>
    /\ zkresult = ZkNoResult
    /\ zkloc = ZkLocNone
    /\ zksends = 0
    /\ zklog = FALSE
    /\ received = NotReceived
    /\ call = NoCall
    /\ app = NoApp
    /\ tasks = <<>>
    /\ store = {}
    /\ service = ServiceStart
    /\ \E n \in DeviceSizes : device = DeviceWith(n)
    /\ \E op \in {"sync_via_tcp", "sync_via_tcp_with_progress"},
          enabled \in BOOLEAN, threshold \in Thresholds :
          sync = SyncStart(op, enabled, threshold)

NextStore ==
    \/ device_punch
    \/ \E ok \in BOOLEAN : closure_connect(ok)
    \/ \E ok \in BOOLEAN : closure_get_attendance(ok)
    \/ \E ok \in BOOLEAN : closure_get_capacity(ok)
    \/ \E ok \in BOOLEAN : closure_clear_attendance(ok)
    \/ spawn_blocking_returns
    \/ sync_insert_batch

\* One sync of the service, the terminal punching alongside.
SpecStore == InitStore /\ [][NextStore]_vars

----------------------------------------------------------------------------
(* ui/app.rs, ui/sync_panel.rs, ui/dashboard.rs, sync.rs -- the UI thread
   (the Sync Now buttons, App::start_sync, App::poll_async_results) and the
   tasks start_sync spawns on the runtime: the async block of start_sync,
   run_sync_background and the on_progress calls of
   sync_via_tcp_with_progress.  Task i sends on channel i; sync_progress_rx is
   the number of the channel whose receiver the App holds, 0 for None.  Of
   each task `sent` keeps every message it handed to tx.send, `polled` the
   messages poll_async_results took off its channel, and `started_in` the
   sync_state start_sync found. *)

\* Calls of start_sync that are followed.
MaxSyncs == 3

\* SyncState
Idle == [tag |-> "Idle"]
InProgress(progress) == [tag |-> "InProgress", progress |-> progress]
Completed == [tag |-> "Completed"]
Error == [tag |-> "Error"]

\* SyncProgress
MsgStarted == [tag |-> "Started", percent |-> 0]
MsgProgress(percent) == [tag |-> "Progress", percent |-> percent]
MsgCompleted == [tag |-> "Completed", percent |-> 100]
MsgError == [tag |-> "Error", percent |-> 0]

IsTerminal(msg) == msg.tag \in {"Completed", "Error"}

\* Variant for comparison: the button of the sync panel is always enabled.
can_sync_always(state) == TRUE

\* sync_panel::show_sync_control: the Sync Now button is enabled.
can_sync(state) == state.tag \in {"Idle", "Completed", "Error"}

\* dashboard: the Quick Actions are disabled while this holds.
is_syncing(state) == state.tag = "InProgress"

\* tx.send(msg) of task i, its result discarded: the message is queued
\* unless the receiver of channel i has been dropped.
tx_send(ts, i, msg, rx) ==
    [ts EXCEPT ![i].sent = Append(@, msg),
               ![i].queue = IF rx = i THEN Append(@, msg) ELSE @]

\* App::start_sync: a new channel, InProgress at once, the task spawned.
start_sync ==
    /\ app' = [sync_state |-> InProgress(0), sync_progress_rx |-> Len(tasks) + 1]
    /\ tasks' = Append(tasks, [pc |-> "spawned", queue |-> <<>>, sent |-> <<>>,
                               polled |-> <<>>, started_in |-> app.sync_state.tag])

\* A click on Sync Now, in the sync panel or on the dashboard.
sync_now(panel) ==
    /\ Len(tasks) < MaxSyncs
    /\ IF panel = "sync_panel" THEN can_sync(app.sync_state)
       ELSE ~is_syncing(app.sync_state)
    /\ start_sync
    /\ UNCHANGED <<tcpvars, zkvars, device, store, service>>

\* The async block of start_sync: tx.send(SyncProgress::Started), then
\* run_sync_background.
task_started(i) ==
    /\ tasks[i].pc = "spawned"
    /\ tasks' = [tx_send(tasks, i, MsgStarted, app.sync_progress_rx)
                   EXCEPT ![i].pc = "connecting"]
    /\ UNCHANGED <<tcpvars, zkvars, device, store, service, app>>

\* The on_progress calls of sync_via_tcp_with_progress, in order: the
\* percent reported at a position and the position after it.
ProgressAt ==
    [connecting |-> [percent |-> 0, next |-> "blocking"],
     downloaded |-> [percent |-> 60, next |-> "inserting"],
     inserting |-> [percent |-> 70, next |-> "insert"],
     finalizing |-> [percent |-> 90, next |-> "done_msg"],
     done_msg |-> [percent |-> 100, next |-> "completed"]]

\* One on_progress call: the closure of run_sync_background sends
\* SyncProgress::Progress.
task_progress(i) ==
    /\ tasks[i].pc \in DOMAIN ProgressAt
    /\ tasks' = [tx_send(tasks, i, MsgProgress(ProgressAt[tasks[i].pc].percent),
                         app.sync_progress_rx)
                   EXCEPT ![i].pc = ProgressAt[tasks[i].pc].next]
    /\ UNCHANGED <<tcpvars, zkvars, device, store, service, app>>

\* spawn_blocking(...).await ... ??: the closure connects to the device,
\* downloads, and drops the client before it returns.
task_spawn_blocking(i, ok) ==
    /\ tasks[i].pc = "blocking"
    /\ tasks' = [tasks EXCEPT ![i].pc = IF ok THEN "downloaded" ELSE "failed"]
    /\ UNCHANGED <<tcpvars, zkvars, device, store, service, app>>

\* attendance::insert_batch(...).await?: insert_batch returns Ok.
task_insert_batch(i) ==
    /\ tasks[i].pc = "insert"
    /\ tasks' = [tasks EXCEPT ![i].pc = "finalizing"]
    /\ UNCHANGED <<tcpvars, zkvars, device, store, service, app>>

\* run_sync_background, Ok arm: SyncProgress::Completed, and the task ends.
task_completed(i) ==
    /\ tasks[i].pc = "completed"
    /\ tasks' = [tx_send(tasks, i, MsgCompleted, app.sync_progress_rx)
                   EXCEPT ![i].pc = "ended"]
    /\ UNCHANGED <<tcpvars, zkvars, device, store, service, app>>

\* run_sync_background, Err arm: SyncProgress::Error, and the task ends.
task_error(i) ==
    /\ tasks[i].pc = "failed"
    /\ tasks' = [tx_send(tasks, i, MsgError, app.sync_progress_rx)
                   EXCEPT ![i].pc = "ended"]
    /\ UNCHANGED <<tcpvars, zkvars, device, store, service, app>>

\* The match of poll_async_results on one message.
poll_match(p, msg) ==
    IF msg.tag = "Started" THEN [p EXCEPT !.sync_state = InProgress(0)]
    ELSE IF msg.tag = "Progress" THEN [p EXCEPT !.sync_state = InProgress(msg.percent)]
    ELSE IF msg.tag = "Completed" THEN [p EXCEPT !.sync_state = Completed, !.done = TRUE]
    ELSE [p EXCEPT !.sync_state = Error, !.done = TRUE]

\* while let Ok(progress) = rx.try_recv() { match ... }
RECURSIVE poll_drain(_, _)
poll_drain(p, queue) ==
    IF queue = <<>> THEN p ELSE poll_drain(poll_match(p, Head(queue)), Tail(queue))

\* App::poll_async_results, the sync part: the receiver is taken, drained,
\* and put back unless a terminal message was seen.
poll_async_results ==
    /\ app.sync_progress_rx # 0
    /\ LET i == app.sync_progress_rx
           p == poll_drain([sync_state |-> app.sync_state, done |-> FALSE],
                           tasks[i].queue)
       IN  /\ app' = [sync_state |-> p.sync_state,
                      sync_progress_rx |-> IF p.done THEN 0 ELSE i]
           /\ tasks' = [tasks EXCEPT ![i].queue = <<>>,
                                     ![i].polled = @ \o tasks[i].queue]
    /\ UNCHANGED <<tcpvars, zkvars, device, store, service>>

InitUi == TcpInit /\ ZkInit

NextUi ==
    \/ \E panel \in {"sync_panel", "dashboard"} : sync_now(panel)
    \/ poll_async_results
    \/ \E i \in DOMAIN tasks : task_started(i)
    \/ \E i \in DOMAIN tasks : task_progress(i)
    \/ \E i \in DOMAIN tasks, ok \in BOOLEAN : task_spawn_blocking(i, ok)
    \/ \E i \in DOMAIN tasks : task_insert_batch(i)
    \/ \E i \in DOMAIN tasks : task_completed(i)
    \/ \E i \in DOMAIN tasks : task_error(i)

\* The UI thread and the background sync tasks it spawns.
SpecUi == InitUi /\ [][NextUi]_vars

----------------------------------------------------------------------------
(* One session of either client, as a run of send_command calls.  The
   session ends with the first call that fails. *)

\* The blocking client as connect() constructs it (session_id 0,
\* reply_id 0), or the async client of new() with its stream opened.
InitSeq ==
    \/ /\ zk = [ZkNone EXCEPT !.alive = TRUE]
       /\ zkpc = "seq"
       /\ zkwire = <<>>
       /\ zkresult = ZkNoResult
       /\ zkloc = ZkLocNone
       /\ zksends = 0
       /\ zklog = TRUE
       /\ received = NotReceived
       /\ AppInit
       /\ call = NoCall
       /\ sync = SyncNone
       /\ TcpInit
    \/ /\ stream = TRUE
       /\ session_id = 0
       /\ reply_id = 0
       /\ pc = "seq"
       /\ wire = <<>>
       /\ result = NoResult
       /\ xfer = XferNone
       /\ raw_data = 0
       /\ xferErr = NoErr
       /\ connReply = NoConnReply
       /\ ZkInit

\* zk::ZkTcpClient::send_command, called once more on the session.
seq_zk_send_command(w, rx) ==
    /\ zkpc = "seq"
    /\ LET sc == zk_send_command(zk, IF zksends = 0 THEN CMD_CONNECT ELSE CMD_GET_FREE_SIZES,
                                 <<>>, w, rx)
       IN  /\ zk' = [zk EXCEPT !.reply_id = sc.reply_id]
           /\ zkwire' = <<sc.frame>>
           /\ IF sc.res.ok
              THEN zksends' = zksends + 1 /\ zkpc' = "seq"
              ELSE zksends' = zksends /\ zkpc' = "seq_end"
    /\ UNCHANGED <<zkresult, zkloc, sync>>
    /\ UNCHANGED <<tcpvars, appvars, zklog, received, call>>

\* zk_tcp ZkTcpClient::send_command, called once more on the session.
seq_send_command(w, rx) ==
    /\ pc = "seq"
    /\ LET sc == send_command(stream, session_id, reply_id,
                              IF zksends = 0 THEN CMD_CONNECT ELSE CMD_GET_FREE_SIZES,
                              EmptyBody, w, rx)
       IN  /\ reply_id' = sc.reply_id
           /\ wire' = sc.trips
           /\ IF sc.res.ok
              THEN zksends' = zksends + 1 /\ pc' = "seq"
              ELSE zksends' = zksends /\ pc' = "seq_end"
    /\ UNCHANGED <<stream, session_id, result, xfer, raw_data, xferErr, connReply>>
    /\ UNCHANGED <<zk, zkpc, zkwire, zkresult, zkloc, zklog, sync, received, call, appvars>>

NextSeq ==
    \/ /\ zksends < MaxSeqSends
       /\ \E w \in WriteOutcomes : \E rx \in RxAfter(w, ZkRxPlain) : seq_zk_send_command(w, rx)
    \/ /\ zksends < MaxSeqSends
       /\ \E w \in WriteOutcomes : \E rx \in RxAfter(w, RxPlain) : seq_send_command(w, rx)

SpecSeq == InitSeq /\ [][NextSeq]_vars



----------------------------------------------------------------------------
(* Properties of zk_tcp::ZkTcpClient, checked under Spec *)

\* Positions in `wire` of the frames with command c.
Cmds(c) == {i \in DOMAIN wire : wire[i].cmd = c}

\* download_attendance has returned.
DlReturned == pc = "idle" /\ result.op = "download_attendance"

\* read_with_buffer returned Err / returned Ok.
TransferFailed == xferErr # NoErr

TransferOk == pc \in {"enable", "idle"} /\ Cmds(CMD_PREPARE_BUFFER) # {} /\ xferErr = NoErr

IsTransport(e) == e.kind \in {"DeviceTimeout", "TcpConnectionFailed"}

\* C1: when read_with_buffer fails (which is after DISABLE_DEVICE succeeded),
\* download_attendance hands exactly one ENABLE_DEVICE frame to the socket,
\* as its last frame, before it returns the error; never more than one.
C1_GuaranteedUnlock ==
    TransferFailed =>
        /\ wire[1].cmd = CMD_DISABLEDEVICE /\ wire[1].sent
        /\ Cardinality(Cmds(CMD_ENABLEDEVICE)) <= 1
        /\ DlReturned =>
              /\ ~result.ok
              /\ Cardinality(Cmds(CMD_ENABLEDEVICE)) = 1
              /\ wire[Len(wire)].cmd = CMD_ENABLEDEVICE

\* A read timeout on a READ_BUFFER reply, the call has returned, one unlock.
C1_Witness ==
    /\ DlReturned
    /\ xferErr = AppErr("DeviceTimeout", "Read timeout")
    /\ Cmds(CMD_READ_BUFFER) # {}
    /\ Cardinality(Cmds(CMD_ENABLEDEVICE)) = 1

\* C2: whenever download_attendance has returned and a DISABLE_DEVICE frame
\* was written to the socket, an ENABLE_DEVICE frame was written after it.
C2_UnlockAfterEveryDisable ==
    DlReturned =>
        \A i \in Cmds(CMD_DISABLEDEVICE) :
            wire[i].sent => \E j \in Cmds(CMD_ENABLEDEVICE) : j > i

\* C3: the error of the transfer is what download_attendance returns, whatever
\* happens to the cleanup commands; and after a successful transfer the parse
\* of the downloaded buffer is returned, whatever happens to ENABLE_DEVICE.
C3_ErrorNotMasked ==
    DlReturned =>
        /\ TransferFailed => ~result.ok /\ result.err = xferErr
        /\ TransferOk => result.ok /\ result.err = NoErr /\ result.parsed = raw_data

\* The transfer failed on a read timeout, then neither FREE_DATA nor
\* ENABLE_DEVICE could be written, and the call has returned.
C3_Witness ==
    /\ DlReturned
    /\ xferErr = AppErr("DeviceTimeout", "Read timeout")
    /\ \E i \in Cmds(CMD_FREE_DATA) : ~wire[i].sent
    /\ \E i \in Cmds(CMD_ENABLEDEVICE) : ~wire[i].sent
    /\ result.err = xferErr

\* C4: whenever download_attendance has returned and a PREPARE_BUFFER frame
\* was written to the socket, a FREE_DATA frame was handed to the socket
\* after it.
C4_BufferAlwaysFreed ==
    DlReturned =>
        \A i \in Cmds(CMD_PREPARE_BUFFER) :
            wire[i].sent => \E j \in Cmds(CMD_FREE_DATA) : j > i

\* The READ_BUFFER frames of the chunk that frame i asks for, up to frame i.
PassesUpTo(i) ==
    {j \in Cmds(CMD_READ_BUFFER) : j <= i /\ wire[j].body = wire[i].body}

\* C6: READ_BUFFER is written at most 3 times per chunk.  A reply with a code
\* other than DATA and PREPARE_DATA is followed by a replay (same body, next
\* sequence number) if it was the first or second pass, and by the protocol
\* error and no further READ_BUFFER if it was the third.  A DATA or
\* PREPARE_DATA reply is never followed by a READ_BUFFER for the same chunk.
C6_BoundedChunkRetry ==
    \A i \in Cmds(CMD_READ_BUFFER) :
        /\ Cardinality(PassesUpTo(i)) <= CHUNK_RETRIES
        /\ wire[i].reply \notin {NoReply, CMD_DATA, CMD_PREPARE_DATA} =>
              IF Cardinality(PassesUpTo(i)) < CHUNK_RETRIES
              THEN IF i = Len(wire)
                   THEN pc = "read_chunk" /\ xferErr = NoErr
                   ELSE /\ wire[i + 1].cmd = CMD_READ_BUFFER
                        /\ wire[i + 1].body = wire[i].body
                        /\ wire[i + 1].seq = (wire[i].seq + 1) % U16
              ELSE /\ xferErr = ChunkErr
                   /\ \A j \in Cmds(CMD_READ_BUFFER) : j <= i
        /\ wire[i].reply \in {CMD_DATA, CMD_PREPARE_DATA} =>
              \A j \in Cmds(CMD_READ_BUFFER) : j > i => wire[j].body # wire[i].body

\* Three READ_BUFFER frames for the second chunk, each answered with another
\* code, and the transfer abandoned.
C6_Witness ==
    /\ xferErr = ChunkErr
    /\ \E i \in Cmds(CMD_READ_BUFFER) :
          /\ Cardinality(PassesUpTo(i)) = CHUNK_RETRIES
          /\ wire[i].body[1] > 0
          /\ \A j \in PassesUpTo(i) : wire[j].reply = CMD_ACK_OK

\* C7: a timeout or connection failure in a READ_BUFFER round trip is the
\* error read_with_buffer returns: that frame is the last READ_BUFFER of the
\* call, and download_attendance returns that error.
C7_TransportNotRetried ==
    \A i \in Cmds(CMD_READ_BUFFER) :
        IsTransport(wire[i].err) =>
            /\ \A j \in Cmds(CMD_READ_BUFFER) : j <= i
            /\ xferErr = wire[i].err
            /\ pc \in {"cleanup_free_data", "cleanup_enable", "idle"}
            /\ pc = "idle" => result = Returned("download_attendance", FALSE, wire[i].err, 0)

\* The reply to the READ_BUFFER of the first of two chunks timed out on its
\* first pass, and the call has returned.
C7_Witness ==
    /\ DlReturned
    /\ xfer.packets = 1 /\ xfer.remain > 0 /\ xfer.i = 0 /\ xfer.retry = 0
    /\ \E i \in Cmds(CMD_READ_BUFFER) :
          wire[i].sent /\ wire[i].err = AppErr("DeviceTimeout", "Read timeout")

\* C9: while the connection opened by a successful connect() is up,
\* session_id is the session id of the device's CONNECT reply, and every
\* frame sent after the CONNECT carries it.
C9_DeviceAssignedSession ==
    connReply.got =>
        /\ session_id = connReply.sid
        /\ \A i \in DOMAIN wire :
              wire[i].cmd # CMD_CONNECT => wire[i].sid = connReply.sid

\* C10: every CONNECT frame is sent with session id 0 and sequence 0.
C10_ConnectStartsFresh ==
    \A i \in Cmds(CMD_CONNECT) : wire[i].sid = 0 /\ wire[i].seq = 0


\* C11: when connect() has returned an error, the client is disconnected:
\* is_connected() is false, no socket is retained.
C11_ConnectRollsBack ==
    (pc = "idle" /\ result.op = "connect" /\ ~result.ok) => ~is_connected

\* C14: download_attendance and get_attendance_count called while no socket
\* is open return the "Not connected" connection error, hand no frame to
\* the socket, and leave the socket slot, session_id and sequence as they
\* were.
C14_RequiresConnected ==
    [][(~is_connected /\ pc = "idle"
          /\ result'.op \in {"download_attendance", "get_attendance_count"})
       => /\ result' = Returned(result'.op, FALSE, NotConnected, 0)
          /\ wire' = <<>>
          /\ pc' = "idle"
          /\ UNCHANGED <<stream, session_id, reply_id>>]_vars

\* download_attendance was refused on a client without a socket.
C14_Witness ==
    /\ ~is_connected
    /\ pc = "idle"
    /\ result = Returned("download_attendance", FALSE, NotConnected, 0)
    /\ wire = <<>>

\* The client state disconnect() must leave behind.
Disconnected == ~is_connected /\ session_id = 0 /\ reply_id = 0

\* C12: disconnect() returns Ok and leaves no socket, session_id 0 and
\* sequence 0, whether or not the EXIT frame could be written; and a
\* disconnect() of a disconnected client writes no frame and leaves the
\* client state as it was.
C12_DisconnectIdempotent ==
    /\ [](result.op = "disconnect" => result.ok /\ Disconnected)
    /\ [][(Disconnected /\ pc = "idle" /\ result'.op = "disconnect")
             => (wire' = <<>> /\ Disconnected')]_vars

\* disconnect() after a session that advanced the counter, the EXIT frame
\* could not be written.
C12_Witness ==
    /\ result.op = "disconnect"
    /\ Len(wire) = 1
    /\ wire[1].cmd = CMD_EXIT
    /\ wire[1].seq > 1
    /\ ~wire[1].sent
    /\ Disconnected

----------------------------------------------------------------------------
(* Claims about the blocking client, under SpecZk *)

ZkCmds(c) == {i \in 1..Len(zkwire) : zkwire[i].cmd = c /\ zkwire[i].sent}

\* C5: when get_attendance returns after its DATA_WRRQ request was sent, a
\* FREE_DATA command was sent after that request, whether the call
\* succeeded or failed.
C5_ZkBufferAlwaysFreed ==
    (zkpc = "idle" /\ zkresult.op = "get_attendance" /\ ZkCmds(CMD_DATA_WRRQ) # {})
        => \E f \in ZkCmds(CMD_FREE_DATA) : \A q \in ZkCmds(CMD_DATA_WRRQ) : q < f

\* Positions in zkwire of the request frames with command c, written or not.
ZkFrames(c) == {i \in DOMAIN zkwire : zkwire[i].cmd = c}

\* C13: a client constructed over an established TCP connection holds its
\* socket until Drop has handed one EXIT frame to it, as the last frame of
\* the connection; every closure of the sync layer that has finished has
\* released its client that way, whether it succeeded or failed.
C13_GuaranteedTeardown ==
    /\ zk.alive => ZkFrames(CMD_EXIT) = {}
    /\ (~zk.alive /\ zkwire # <<>>) =>
          /\ zkwire[Len(zkwire)].cmd = CMD_EXIT
          /\ Cardinality(ZkFrames(CMD_EXIT)) = 1
    /\ sync.pc = "done" => ~zk.alive /\ zkpc = "gone"

\* sync_via_tcp whose download failed on a chunk, client dropped.
C13_Witness ==
    /\ sync.op = "sync_via_tcp"
    /\ sync.pc = "done"
    /\ ~sync.ok
    /\ zkresult.op = "get_attendance"
    /\ ZkCmds(CMD_READ_CHUNK) # {}
    /\ zkwire[Len(zkwire)].cmd = CMD_EXIT

\* C16: on one blocking client, every request frame that was written is
\* followed by an attempt to read a reply before the next request frame is
\* handed to the socket (connect, get_attendance and its chunk loop,
\* get_capacity, clear_attendance, the EXIT of the teardown).
C16_OneInFlight ==
    \A i \in DOMAIN zkwire :
        (i < Len(zkwire) /\ zkwire[i].sent) => zkwire[i].read

\* A sync whose download read two chunks, with the capacity query and the
\* EXIT of the teardown after it.
C16_Witness ==
    /\ sync.pc = "done"
    /\ Cardinality(ZkCmds(CMD_READ_CHUNK)) >= 2
    /\ ZkCmds(CMD_FREE_DATA) # {}
    /\ \E i \in ZkCmds(CMD_GET_FREE_SIZES) : \E j \in ZkCmds(CMD_FREE_DATA) : j < i
    /\ zkwire[Len(zkwire)].cmd = CMD_EXIT
    /\ \A i \in DOMAIN zkwire : zkwire[i].sent /\ zkwire[i].read

\* Positions in sync.calls of the finished calls of client method c.
Calls(c) == {i \in DOMAIN sync.calls : sync.calls[i].call = c}

\* The capacity query of this sync reported at least the threshold.
ThresholdReached ==
    \E i \in Calls("get_capacity") :
        sync.calls[i].ok /\ sync.calls[i].records >= sync.auto_clear_threshold

\* C17: within one sync, clear_attendance is invoked if and only if
\* auto-clear is enabled and the capacity query made after the download
\* reported at least the threshold; only after get_attendance returned Ok on
\* the same connection; with auto-clear disabled no capacity query and no
\* clear command is sent; device_cleared is true exactly when
\* clear_attendance was invoked and succeeded.
C17_AutoClearPolicy ==
    IsSync(sync.op) =>
        /\ \A i \in Calls("clear_attendance") :
              /\ sync.auto_clear_enabled
              /\ i = 4
              /\ sync.calls[3].call = "get_capacity"
              /\ sync.calls[3].ok
              /\ sync.calls[3].records >= sync.auto_clear_threshold
              /\ sync.calls[2].call = "get_attendance"
              /\ sync.calls[2].ok
              /\ sync.calls[1].call = "connect"
        /\ (sync.auto_clear_enabled /\ ThresholdReached) =>
              (Calls("clear_attendance") # {} \/ sync.pc = "clear_attendance")
        /\ (Calls("clear_attendance") # {}) <=> (ZkFrames(CMD_CLEAR_ATTLOG) # {})
        /\ ~sync.auto_clear_enabled =>
              /\ Calls("get_capacity") = {}
              /\ Calls("clear_attendance") = {}
              /\ ZkFrames(CMD_CLEAR_ATTLOG) = {}
              /\ Cardinality(ZkFrames(CMD_GET_FREE_SIZES)) <= 2
        /\ sync.returned =>
              (sync.device_cleared <=>
                  \E i \in Calls("clear_attendance") : sync.calls[i].ok)
        /\ sync.device_cleared => sync.returned /\ sync.ok

\* A sync with auto-clear enabled whose capacity query reported exactly the
\* threshold: the device was cleared and the result says so.
C17_Witness ==
    /\ IsSync(sync.op)
    /\ sync.pc = "done"
    /\ sync.auto_clear_enabled
    /\ sync.ok
    /\ sync.device_cleared
    /\ \E i \in Calls("get_capacity") :
          sync.calls[i].records = sync.auto_clear_threshold
    /\ ZkCmds(CMD_CLEAR_ATTLOG) # {}

\* C18: clear_attendance sends exactly one command, CLEAR_ATTLOG; given a
\* reply, it returns Ok if and only if the reply's code is ACK_OK (2000), and
\* any other code gives an InvalidResponse error.
C18_ClearNeedsAckOk ==
    /\ [][zkresult'.op = "clear_attendance" /\ zkresult.op # "clear_attendance" =>
            /\ Len(zkwire') = Len(zkwire) + 1
            /\ SubSeq(zkwire', 1, Len(zkwire)) = zkwire
            /\ zkwire'[Len(zkwire')].cmd = CMD_CLEAR_ATTLOG]_vars
    /\ [](zkresult.op = "clear_attendance" =>
            /\ Cardinality(ZkFrames(CMD_CLEAR_ATTLOG)) = 1
            /\ \A i \in ZkFrames(CMD_CLEAR_ATTLOG) :
                  /\ zkresult.ok <=> (zkwire[i].reply.got /\ zkwire[i].reply.cmd = CMD_ACK_OK)
                  /\ (zkwire[i].reply.got /\ zkwire[i].reply.cmd # CMD_ACK_OK) =>
                        zkresult.err.kind = "InvalidResponse")

\* clear_attendance was answered with a code other than ACK_OK and failed.
C18_Witness ==
    /\ zkresult.op = "clear_attendance"
    /\ ~zkresult.ok
    /\ zkresult.err.kind = "InvalidResponse"
    /\ \E i \in ZkFrames(CMD_CLEAR_ATTLOG) :
          zkwire[i].reply.got /\ zkwire[i].reply.cmd = CMD_DATA

\* The request frame of the get_capacity call that returned last.
CapacityFrame == zkwire[CHOOSE i \in ZkFrames(CMD_GET_FREE_SIZES) :
                           \A j \in ZkFrames(CMD_GET_FREE_SIZES) : j <= i]

\* C19: get_capacity sends exactly one GET_FREE_SIZES request; a reply body
\* of at least 80 bytes gives records, records_cap and records_av equal to
\* the counters the device put at indices 8, 16 and 19 (little-endian); a
\* shorter body gives an error and no capacity value.
C19_CapacityParse ==
    /\ [][zkresult'.op = "get_capacity" /\ zkresult.op # "get_capacity" =>
            /\ Len(zkwire') = Len(zkwire) + 1
            /\ SubSeq(zkwire', 1, Len(zkwire)) = zkwire
            /\ zkwire'[Len(zkwire')].cmd = CMD_GET_FREE_SIZES]_vars
    /\ [](zkresult.op = "get_capacity" /\ CapacityFrame.reply.got =>
            LET data == CapacityFrame.reply.data
            IN  /\ data.len >= 80 =>
                      /\ zkresult.ok
                      /\ \E l \in {80, 84}, r \in RecordCounts :
                            /\ data = CapBody(l, CapWords(r))
                            /\ zkresult.capacity =
                                  DeviceCapacity(r, CapWords(r)[17], CapWords(r)[20])
                /\ data.len < 80 =>
                      /\ ~zkresult.ok
                      /\ zkresult.err.kind = "InvalidResponse"
                      /\ zkresult.capacity = NoCapacity)

\* get_capacity read 101 records, and the two other counters, out of an
\* 84-byte reply.
C19_Witness ==
    /\ zkresult.op = "get_capacity"
    /\ zkresult.ok
    /\ CapacityFrame.reply.data.len = 84
    /\ zkresult.capacity = DeviceCapacity(101, 1017, 1020)

\* The frame came off the socket whole: both reads delivered their bytes.
ReceivedWhole == received.rx.hdr = "ok" /\ received.rx.pay = "ok"

\* C20: both read_response functions reject a malformed frame with a
\* protocol error: one with wrong magic bytes, or one announcing fewer than
\* 8 payload bytes; a reply comes only out of a frame with the right magic
\* and at least 8 payload bytes, its command and body those of the payload.
C20_MalformedRejected ==
    LET rx == received.rx
    IN  /\ received.tcp_read =>
              /\ (rx.hdr = "ok" /\ ~rx.magic_ok) =>
                    (~received.tcp.ok /\ received.tcp.err.kind = "TcpProtocolError")
              /\ (ReceivedWhole /\ rx.magic_ok /\ rx.tcp_length < 8) =>
                    (~received.tcp.ok /\ received.tcp.err.kind = "TcpProtocolError")
              /\ received.tcp.ok =>
                    /\ rx.magic_ok /\ rx.tcp_length >= 8
                    /\ received.tcp.val.code = rx.code
                    /\ received.tcp.val.data = rx.data
                    /\ received.tcp.val.data.len = rx.tcp_length - 8
        /\ received.zk_read =>
              /\ (rx.hdr = "ok" /\ ~rx.magic_ok) =>
                    (~received.zk.ok /\ received.zk.err.kind = "InvalidResponse")
              /\ (ReceivedWhole /\ rx.magic_ok /\ rx.tcp_length < 8) =>
                    (~received.zk.ok /\ received.zk.err.kind = "InvalidResponse")
              /\ received.zk.ok =>
                    /\ rx.magic_ok /\ rx.tcp_length >= 8
                    /\ received.zk.val.cmd = rx.code
                    /\ received.zk.val.data = rx.data
                    /\ received.zk.val.data.len = rx.tcp_length - 8

\* A frame with wrong magic bytes that announces a full payload, and a
\* 7-byte payload behind right magic, each refused by both functions.
C20_Witness ==
    /\ received.tcp_read /\ received.zk_read
    /\ ~received.tcp.ok /\ ~received.zk.ok
    /\ received.rx.hdr = "ok"
    /\ received.rx.code = CMD_ACK_OK
    /\ \/ ~received.rx.magic_ok /\ received.rx.tcp_length = 12
       \/ received.rx.magic_ok /\ received.rx.pay = "ok" /\ received.rx.tcp_length = 7

\* C21: whatever the device replies, a handler of the blocking client
\* returns a value or a typed error; here: get_attendance never panics in
\* its download loop, whatever total size and chunk lengths the device sends.
C21_HostileDegrades == ~(call.fn = "get_attendance" /\ call.at = "panic")

\* C22: two reply frames that differ only in the checksum field get the same
\* result from read_response (both functions), and a frame that is otherwise
\* acceptable is accepted with a wrong checksum.
C22_ChecksumIgnored ==
    LET rx == received.rx
    IN  /\ received.tcp_read =>
              /\ \A k \in BOOLEAN :
                    read_response([rx EXCEPT !.checksum_ok = k]) = received.tcp
              /\ (ReceivedWhole /\ rx.magic_ok /\ rx.tcp_length >= 8
                    /\ rx.tcp_length <= MAX_PAYLOAD) => received.tcp.ok
        /\ received.zk_read =>
              /\ \A k \in BOOLEAN :
                    zk_read_response([rx EXCEPT !.checksum_ok = k]) = received.zk
              /\ (ReceivedWhole /\ rx.magic_ok /\ rx.tcp_length >= 8) => received.zk.ok

\* A 12-byte DATA payload with a wrong checksum, accepted by both functions
\* with its command, body and length.
C22_Witness ==
    /\ received.tcp_read /\ received.zk_read
    /\ ~received.rx.checksum_ok
    /\ received.rx.tcp_length = 12
    /\ received.tcp.ok /\ received.tcp.val.code = CMD_DATA
    /\ received.tcp.val.data.len = 4 /\ received.tcp.val.tcp_length = 12
    /\ received.zk.ok /\ received.zk.val.cmd = CMD_DATA
    /\ received.zk.val.data.len = 4

\* The sum of the bytes of v read as little-endian 16-bit words: a byte at
\* an even offset counts as itself, one at an odd offset 256 times.
RECURSIVE WordSum(_)
WordSum(v) ==
    IF v = <<>> THEN 0
    ELSE WordSum(SubSeq(v, 1, Len(v) - 1))
         + v[Len(v)] * (IF Len(v) % 2 = 1 THEN 1 ELSE 256)

\* The 16-bit ones' complement of the end-around-carry sum of total n.
OnesComplement(n) == 65535 - (IF n = 0 THEN 0 ELSE ((n - 1) % 65535) + 1)

\* C23: the checksum build_packet writes is the 16-bit ones' complement of
\* the end-around-carry sum of the little-endian words of command, session
\* id, sequence and body (0xFFFF for no input, 0xFC17 for CONNECT with
\* session 0 and sequence 0), and the checksum recomputed over the fields
\* parse_response decodes from the built frame is the one stored in it.
C23_ChecksumRoundTrip ==
    /\ calc_checksum(<<>>) = 65535
    /\ calculate_checksum(<<>>) = 65535
    /\ (call.fn = "build_packet" /\ call.done) =>
          LET stored == u16_from_le(call.packet, 10)
          IN  /\ stored = OnesComplement(call.cmd + call.session_id + call.reply_id
                                           + WordSum(call.data))
              /\ (call.cmd = CMD_CONNECT /\ call.session_id = 0 /\ call.reply_id = 0
                    /\ call.data = <<>>) => stored = 64535
              /\ call.parsed =>
                    LET r == call.response
                    IN  /\ r.ok
                        /\ calc_checksum(u16_to_le(r.cmd) \o u16_to_le(r.session_id)
                                           \o u16_to_le(r.reply_id) \o r.data) = stored
                        /\ <<r.cmd, r.session_id, r.reply_id, r.data>> =
                              <<call.cmd, call.session_id, call.reply_id, call.data>>

\* A frame whose word sum carries out of 16 bits, with a body of odd length,
\* built and parsed back.
C23_Witness ==
    /\ call.fn = "build_packet" /\ call.done /\ call.parsed
    /\ call.cmd = 65535 /\ call.session_id = 65535 /\ call.reply_id = 1
    /\ call.data = <<255, 255, 255>>
    /\ call.response.ok

\* The READ_BUFFER frame before frame i, or 0.
PrevRead(i) ==
    IF \E j \in Cmds(CMD_READ_BUFFER) : j < i
    THEN CHOOSE j \in Cmds(CMD_READ_BUFFER) :
            j < i /\ \A k \in Cmds(CMD_READ_BUFFER) : k < i => k <= j
    ELSE 0

\* read_with_buffer read every chunk of an announced size above 0.
ChunksDone == xfer.size > 0 /\ xferErr = NoErr /\ pc \in {"free_data", "enable"}

\* C24 as stated: for an announced total_size > 0 read_with_buffer issues
\* exactly floor(total_size / MAX_CHUNK) READ_BUFFER requests of length
\* MAX_CHUNK and one more for a non-zero remainder.
C24_ExactlyOneRequestPerChunk ==
    xfer.size > 0 =>
        /\ Cardinality(Cmds(CMD_READ_BUFFER))
              <= (xfer.size \div MAX_CHUNK) + (IF xfer.size % MAX_CHUNK > 0 THEN 1 ELSE 0)
        /\ ChunksDone =>
              Cardinality(Cmds(CMD_READ_BUFFER))
                 = (xfer.size \div MAX_CHUNK) + (IF xfer.size % MAX_CHUNK > 0 THEN 1 ELSE 0)

\* C24, amended: every READ_BUFFER request starts at a multiple of MAX_CHUNK
\* below total_size and asks for MAX_CHUNK bytes, or for total_size mod
\* MAX_CHUNK at the last multiple; the first starts at 0 and each later one
\* repeats the range before it (a retry, at most 3 requests per range) or
\* starts where that range ended; when all chunks were read the last range
\* ends at total_size.
C24_ChunkingArithmetic ==
    xfer.size > 0 =>
        /\ \A i \in Cmds(CMD_READ_BUFFER) :
              LET start == wire[i].body[1]
                  size == wire[i].body[2]
                  p == PrevRead(i)
              IN  /\ start % MAX_CHUNK = 0
                  /\ start < xfer.size
                  /\ size = IF start + MAX_CHUNK <= xfer.size
                            THEN MAX_CHUNK ELSE xfer.size % MAX_CHUNK
                  /\ size > 0
                  /\ IF p = 0 THEN start = 0
                     ELSE \/ wire[p].body = wire[i].body
                          \/ start = wire[p].body[1] + wire[p].body[2]
                  /\ Cardinality(PassesUpTo(i)) <= CHUNK_RETRIES
        /\ ChunksDone =>
              /\ Cardinality({wire[i].body : i \in Cmds(CMD_READ_BUFFER)})
                    = (xfer.size \div MAX_CHUNK) + (IF xfer.size % MAX_CHUNK > 0 THEN 1 ELSE 0)
              /\ \E i \in Cmds(CMD_READ_BUFFER) :
                    wire[i].body[1] + wire[i].body[2] = xfer.size

\* Two full chunks and a rest of 100 bytes, each read at the first request.
C24_Witness ==
    /\ ChunksDone
    /\ xfer.size = 2 * MAX_CHUNK + 100
    /\ Cardinality(Cmds(CMD_READ_BUFFER)) = 3
    /\ \E i \in Cmds(CMD_READ_BUFFER) : wire[i].body = <<2 * MAX_CHUNK, 100>>

----------------------------------------------------------------------------
(* The record decoders, under SpecDecode *)

\* C25: decode_zk_timestamp inverts the packing formula: for every year from
\* 2000, month 1..12, day 1..31, hour 0..23, minute 0..59 and second 0..59
\* the packed value decodes to these fields; 0 decodes to 2000-01-01
\* 00:00:00 and 86400 to 2000-01-02 00:00:00.
C25_DecodeInvertsPack ==
    (call.fn = "decode_zk_timestamp" /\ call.done) =>
        /\ \A f \in PackedFields : pack_zk_timestamp(f) = call.data => call.out = f
        /\ call.data = 0 => call.out = DateTime(2000, 1, 1, 0, 0, 0)
        /\ call.data = 86400 => call.out = DateTime(2000, 1, 2, 0, 0, 0)

\* The last second of 2025 went through the formula and back.
C25_Witness ==
    /\ call.fn = "decode_zk_timestamp"
    /\ call.done
    /\ call.data = pack_zk_timestamp(DateTime(2025, 12, 31, 23, 59, 59))
    /\ call.out = DateTime(2025, 12, 31, 23, 59, 59)


\* The 40-byte records of a buffer as parse_attendance lays it out (a 4-byte
\* prefix, then the records): their number, record i from 0, and the
\* buffer with record i taken out.
RecordCount(data) ==
    IF Len(data) < DATA_PREFIX_SIZE THEN 0 ELSE (Len(data) - DATA_PREFIX_SIZE) \div RECORD_SIZE

RecordAt(data, i) ==
    Slice(data, DATA_PREFIX_SIZE + i * RECORD_SIZE, DATA_PREFIX_SIZE + (i + 1) * RECORD_SIZE)

WithoutRecord(data, i) ==
    Slice(data, 0, DATA_PREFIX_SIZE + i * RECORD_SIZE)
        \o Slice(data, DATA_PREFIX_SIZE + (i + 1) * RECORD_SIZE, Len(data))

\* C26: a 40-byte record whose packed timestamp field is all zero produces
\* no AttendanceRecord, whatever its other fields hold, and leaves the
\* decoding of the other records as it is: parse_attendance returns what it
\* returns for the buffer without that record, and no more records than the
\* buffer has records with a timestamp other than zero.
C26_ZeroTimestampSkipped ==
    (call.fn = "parse_attendance" /\ call.done) =>
        /\ \A i \in 0..(RecordCount(call.data) - 1) :
              Slice(RecordAt(call.data, i), 27, 31) = <<0, 0, 0, 0>> =>
                  call.out = parse_attendance(WithoutRecord(call.data, i), call.unresolved)
        /\ Len(call.out) <= Cardinality({i \in 0..(RecordCount(call.data) - 1) :
                                 Slice(RecordAt(call.data, i), 27, 31) # <<0, 0, 0, 0>>})

\* Id "65" with an all-zero timestamp and other bytes 7, then id "123" with
\* a real date: the second record alone is returned.
C26_Witness ==
    /\ call.fn = "parse_attendance"
    /\ call.done
    /\ call.data = Prefixed("size", zk_record(<<54, 53>>, 0, 7)
                                      \o zk_record(<<49, 50, 51>>, TestTimestamp, 0))
    /\ Len(call.out) = 1
    /\ call.out[1].user_id = 123

\* The text of the user-id field of a record, and a text that is no
\* unsigned decimal number.
IdText(chunk) == Slice(Slice(chunk, 2, 12), 0, position_nul(Slice(chunk, 2, 12)))

NonNumeric(text) ==
    \/ text = <<>>
    \/ text = <<43>>
    \/ \E k \in 1..Len(text) : text[k] \notin 48..57 /\ ~(k = 1 /\ text[k] = 43)

\* C27: parse_attendance returns a list for every buffer; a record whose
\* user id is no number, or whose timestamp is no local date-time (a day
\* the month does not have, a local time the zone has twice or not at all),
\* is skipped; every other record that decodes is returned once, in buffer
\* order.
C27_FailureIsolation ==
    (call.fn = "parse_attendance" /\ call.done) =>
        LET n == RecordCount(call.data)
            rec(i) == parse_record(RecordAt(call.data, i), call.unresolved)
            good == {i \in 0..(n - 1) : rec(i).some}
            t(i) == decode_zk_timestamp(u32_from_le(RecordAt(call.data, i), 27))
        IN  /\ Len(call.out) = Cardinality(good)
            /\ \A i \in good : call.out[Cardinality({j \in good : j <= i})] = rec(i).val
            /\ \A i \in 0..(n - 1) :
                  (\/ NonNumeric(IdText(RecordAt(call.data, i)))
                   \/ t(i).day > days_in_month(t(i).year, t(i).month)
                   \/ t(i) \in call.unresolved)
                     => /\ i \notin good
                        /\ call.out = parse_attendance(WithoutRecord(call.data, i),
                                                       call.unresolved)

\* Id "1a", then id "20": the second record alone is returned; and the
\* same for id "77" on February 30th after id "20".
C27_Witness ==
    /\ call.fn = "parse_attendance"
    /\ call.done
    /\ call.data \in {Prefixed("zero", zk_record(<<49, 97>>, 86400, 0)
                                         \o zk_record(<<50, 48>>, 86400, 7)),
                      Prefixed("zero", zk_record(<<50, 48>>, 86400, 7)
                           \o zk_record(<<55, 55>>,
                                 pack_zk_timestamp(DateTime(2025, 2, 30, 8, 0, 0)), 0))}
    /\ call.out = <<[user_id |-> 20, timestamp |-> DateTime(2000, 1, 2, 0, 0, 0)]>>


\* C28: parse_attendance strips the first 4 bytes of the buffer if and only
\* if their little-endian u32 value is len(buffer) - 4, and decodes a
\* buffer without such a header as 40-byte records from byte 0.
C28_HeaderStrippedIffSize ==
    (call.fn = "parse_attendance" /\ call.done) =>
        LET data == call.data
            header == Len(data) >= 4 /\ u32_from_le(data, 0) = Len(data) - 4
        IN  call.out = filter_map_chunks(IF header THEN Slice(data, 4, Len(data)) ELSE data,
                                         0, call.unresolved)


\* The text of the user-id field of a record of zk_tcp::parser.
TcpIdText(chunk) == Slice(chunk, 0, position_nul(Slice(chunk, 0, 9)))

\* C29: parse_attendance_data on a binary buffer of k complete 40-byte
\* records with numeric user ids (and local times the zone resolves)
\* returns exactly k records in buffer order, the i-th with the id of the
\* i-th record and with check_time 2000-01-01 00:00:00 plus the record's
\* timestamp in seconds; bytes after the last complete record are ignored.
C29_BinaryDecode ==
    (call.fn = "parse_attendance_data" /\ call.done) =>
        LET data == call.data
            k == Len(data) \div RECORD_SIZE
            rec(i) == Slice(data, i * RECORD_SIZE, (i + 1) * RECORD_SIZE)
            id(i) == TcpIdText(rec(i))
            time(i) == naive_after_base(u32_from_le(rec(i), 24))
        IN  (\A i \in 0..(k - 1) :
                /\ id(i) # <<>>
                /\ \A j \in 1..Len(id(i)) : id(i)[j] \in 48..57
                /\ time(i) \notin call.unresolved)
            => /\ Len(call.out) = k
               /\ \A i \in 0..(k - 1) :
                     /\ call.out[i + 1].scanner_uid = parse_digits(id(i), 0, 214748364, 7).val
                     /\ call.out[i + 1].check_time = time(i)


----------------------------------------------------------------------------
(* The frame layout of build_packet, under SpecPacket *)

\* C30: every frame build_packet produces is the magic 50 50 82 7D, a
\* little-endian u32 length of 8 + len(body), then command, checksum,
\* session id and sequence as little-endian u16, then the body unchanged;
\* it is 16 + len(body) bytes long, so the length field counts the bytes
\* that follow it.
C30_FrameLayout ==
    (call.fn = "build_packet" /\ call.tcp_built) =>
        LET p == call.tcp.packet
            word(i) == p[i] + 256 * p[i + 1]
        IN  /\ Len(p) = 16 + Len(call.data)
            /\ SubSeq(p, 1, 4) = <<80, 80, 130, 125>>
            /\ word(5) + 65536 * word(7) = 8 + Len(call.data)
            /\ word(5) + 65536 * word(7) = Len(p) - 8
            /\ word(9) = call.cmd
            /\ word(11) = OnesComplement(WordSum(SubSeq(p, 9, 10) \o SubSeq(p, 13, Len(p))))
            /\ word(13) = call.session_id
            /\ word(15) = call.reply_id
            /\ SubSeq(p, 17, Len(p)) = call.data
            /\ \A i \in 1..Len(p) : p[i] \in 0..255

\* CONNECT with session 65535, sequence 1 and a body of 4 bytes: 20 bytes,
\* length field 12.
C30_Witness ==
    /\ call.fn = "build_packet"
    /\ call.tcp_built
    /\ call.cmd = CMD_CONNECT
    /\ call.session_id = 65535
    /\ call.reply_id = 1
    /\ call.data = <<1, 2, 3, 4>>
    /\ SubSeq(call.tcp.packet, 1, 8) = <<80, 80, 130, 125, 12, 0, 0, 0>>
    /\ SubSeq(call.tcp.packet, 17, 20) = <<1, 2, 3, 4>>


\* C37: for every command, session id, sequence and body the frame of
\* zk::protocol::build_packet (checksum over command, session id, sequence
\* and body) and the frame of zk_tcp::protocol::build_packet (checksum over
\* the inner packet with the checksum field zero) are the same bytes.
C37_EncodersAgree ==
    (call.fn = "build_packet" /\ call.done /\ call.tcp_built) =>
        call.packet = call.tcp.packet

\* Both encoders ran on a body of odd length whose word sum needs folding.
C37_Witness ==
    /\ call.fn = "build_packet"
    /\ call.done
    /\ call.tcp_built
    /\ call.cmd = 65535
    /\ call.data = <<255, 255, 0, 128, 7>>
    /\ Len(call.packet) = 21
    /\ call.packet = call.tcp.packet


----------------------------------------------------------------------------
(* The lock bracket of download_attendance, under Spec *)

\* The place of a command in the bracket DISABLE_DEVICE, PREPARE_BUFFER,
\* READ_BUFFER.., FREE_DATA, ENABLE_DEVICE; 0 for any other command.
BracketStage(c) ==
    CASE c = CMD_DISABLEDEVICE -> 1
      [] c = CMD_PREPARE_BUFFER -> 2
      [] c = CMD_READ_BUFFER -> 3
      [] c = CMD_FREE_DATA -> 4
      [] c = CMD_ENABLEDEVICE -> 5
      [] OTHER -> 0

\* The frames on the wire are those of a call of download_attendance.
InDownload == wire # <<>> /\ wire[1].cmd = CMD_DISABLEDEVICE

\* C31: the commands download_attendance hands to the socket are, in order,
\* DISABLE_DEVICE, PREPARE_BUFFER, zero or more READ_BUFFER, at most one
\* FREE_DATA, and ENABLE_DEVICE last; PREPARE_BUFFER and READ_BUFFER come
\* only after the reply to DISABLE_DEVICE was received and never after
\* ENABLE_DEVICE; ENABLE_DEVICE is written at most once.
C31_LockBracketOrdering ==
    InDownload =>
        /\ \A i \in DOMAIN wire : BracketStage(wire[i].cmd) > 0
        /\ \A i, j \in DOMAIN wire :
              i < j => \/ BracketStage(wire[i].cmd) < BracketStage(wire[j].cmd)
                       \/ wire[i].cmd = CMD_READ_BUFFER /\ wire[j].cmd = CMD_READ_BUFFER
        /\ \A i \in Cmds(CMD_PREPARE_BUFFER) \cup Cmds(CMD_READ_BUFFER) :
              /\ wire[1].sent /\ wire[1].err = NoErr
              /\ \A j \in Cmds(CMD_ENABLEDEVICE) : i < j
        /\ Cardinality(Cmds(CMD_ENABLEDEVICE)) <= 1
        /\ DlReturned =>
              /\ Len(wire) >= 2
              /\ wire[2].cmd = CMD_PREPARE_BUFFER
              /\ wire[Len(wire)].cmd = CMD_ENABLEDEVICE


----------------------------------------------------------------------------
(* The chunk requests of get_attendance at the width of u32, under SpecWide *)

\* C32: every READ_CHUNK request of get_attendance is issued at an offset
\* below total_size and asks for min(CHUNK_SIZE, total_size - offset)
\* bytes, so that it ends at total_size or before; the offset then advances
\* by the number of bytes received, and the loop goes on exactly while
\* offset < total_size.
C32_ExactSizeRequests ==
    (call.fn = "get_attendance" /\ call.chunk_req # <<>>) =>
        LET from == call.chunk_req[1]
            size == call.chunk_req[2]
            end == u32_add(from, size)
            next == u32_add(from, call.chunk_len)
        IN  /\ u32_lt(from, call.total_size)
            /\ size.hi = 0 /\ size.lo <= CHUNK_SIZE
            /\ ~end.overflow /\ ~u32_lt(call.total_size, end.val)
            /\ size.lo < CHUNK_SIZE => end.val = call.total_size
            /\ ~next.overflow
            /\ call.offset = next.val
            /\ call.at \in {"loop", "free", "returned"}
            /\ call.at = "loop" <=> u32_lt(call.offset, call.total_size)


----------------------------------------------------------------------------
(* The buffer read_with_buffer returns, under Spec *)

\* C33: in a chunked transfer every chunk read contributes exactly the
\* bytes requested for it, and when read_with_buffer returns Ok the
\* buffer has the length announced in the reply to PREPARE_BUFFER.
C33_CompleteBufferOnSuccess ==
    (xfer.size > 0 /\ xferErr = NoErr) =>
        /\ xfer.all_data = IF xfer.i <= xfer.packets THEN xfer.i * MAX_CHUNK ELSE xfer.size
        /\ pc \in {"enable", "idle"} => raw_data = xfer.size

----------------------------------------------------------------------------
(* The sync service against the store and the terminal, under SpecStore *)

\* C34: every record the auto-clear of a sync erased from the terminal is
\* among the records that sync's get_attendance returned, also when the
\* terminal records punches while the sync runs.
C34_NoPunchClearedUndownloaded ==
    service.pc # "none" => device.erased \subseteq Range(service.records)

\* C35: a sync that has returned did not leave the terminal cleared with
\* records it downloaded missing from the store; and when an INSERT of the
\* batch failed, the sync did not clear the terminal or it returned an error.
C35_ClearOnlyAfterPersistence ==
    service.pc = "returned" =>
      /\ device.erased # {} => Range(service.records) \subseteq store
      /\ service.insert_failed => (device.erased = {} \/ ~service.ok)

----------------------------------------------------------------------------
(* The UI and its background sync tasks, under SpecUi *)

\* The tasks that have not sent their terminal message yet.
InFlight == {i \in DOMAIN tasks : tasks[i].pc # "ended"}

\* Positions of the terminal messages in a run of messages.
Terminals(msgs) == {k \in DOMAIN msgs : IsTerminal(msgs[k])}

\* C36: a sync is started only from Idle, Completed or Error; from
\* start_sync on sync_state is InProgress for as long as the task runs, and
\* it is Completed or Error only once that terminal message of the latest
\* task has been polled; a task sends one terminal message, as its last
\* message; so at most one background sync task, and at most one device
\* connection, exists at a time.
C36_AtMostOneSyncInFlight ==
    /\ \A i \in DOMAIN tasks :
         /\ tasks[i].started_in \in {"Idle", "Completed", "Error"}
         /\ Terminals(tasks[i].sent) \subseteq {Len(tasks[i].sent)}
         /\ tasks[i].pc = "ended" <=> Terminals(tasks[i].sent) # {}
         /\ i \in InFlight => i = Len(tasks) /\ app.sync_state.tag = "InProgress"
    /\ tasks = <<>> => app.sync_state.tag = "Idle"
    /\ (tasks # <<>> /\ app.sync_state.tag # "InProgress") =>
         LET t == tasks[Len(tasks)]
         IN  /\ t.pc = "ended"
             /\ t.polled = t.sent
             /\ t.polled[Len(t.polled)].tag = app.sync_state.tag
    /\ Cardinality(InFlight) <= 1
    /\ Cardinality({i \in DOMAIN tasks : tasks[i].pc = "blocking"}) <= 1

\* A second sync, started after the first one completed, holds the device
\* connection.
C36_Witness ==
    /\ Len(tasks) = 2
    /\ tasks[1].pc = "ended" /\ tasks[1].sent[Len(tasks[1].sent)] = MsgCompleted
    /\ tasks[2].started_in = "Completed"
    /\ tasks[2].pc = "blocking"
    /\ app.sync_state = InProgress(0)

----------------------------------------------------------------------------
(* Termination of get_attendance, under SpecHang *)

\* C15: every call of get_attendance eventually returns, records or an
\* error, when each socket read yields a well-formed frame or times out.
C15_GetAttendanceReturns == <>(zkpc = "idle" /\ zkresult.op = "get_attendance")

----------------------------------------------------------------------------
(* Claims about the sequence number, under SpecSeq *)

\* C8: the sequence number starts at 0; after N consecutive successful
\* send_command calls on one session it is N mod 65536, the request of the
\* N-th call carried (N-1) mod 65536, and a request that ends the run
\* carried N mod 65536.
C8_SequenceMonotonic ==
    /\ zkpc = "seq" => /\ zk.reply_id = zksends % U16
                       /\ zksends > 0 => zkwire[1].seq = (zksends - 1) % U16
    /\ zkpc = "seq_end" => zkwire[1].seq = zksends % U16
    /\ pc = "seq" => /\ reply_id = zksends % U16
                     /\ zksends > 0 => wire[1].seq = (zksends - 1) % U16
    /\ pc = "seq_end" => wire[1].seq = zksends % U16

\* The 65537th successful call of a session: the counter has wrapped.
C8_Witness ==
    /\ zkpc = "seq"
    /\ zksends = U16 + 1
    /\ zk.reply_id = 1
    /\ zkwire[1].seq = 0
    /\ zkwire[1].sent

====
